---- MODULE Spec2Model ----
(***************************************************************************)
(* Retail management core: the audit-chained write pipeline.               *)
(*                                                                         *)
(* The store (SQLite, one connection) is modelled by the tables products,  *)
(* auditLogs (+ its AUTOINCREMENT sequence), sales and saleItems.  Every   *)
(* service call is one action; the storage calls it makes can fail, which  *)
(* is an input of the action (fault).  Strings are TLA+ strings, so the    *)
(* hash input payload ++ timestamp ++ prevHash is a real concatenation;    *)
(* SHA-256 is modelled as an injective (collision-free) function.          *)
(***************************************************************************)
EXTENDS Integers, Sequences, FiniteSets, TLC

\* ---------------------------------------------------------------- bounds
MaxLog == 2        \* audit entries the store may hold before a call
MaxChain == 3      \* audit entries of the chains that are tampered with
MaxItems == 2      \* items of one sale request
MaxRows == 2       \* data rows of one CSV import
MaxQty == 2        \* largest stock level

ProductIDs == {"p1", "p2"}
SKUs == {"s1", "s2"}
Names == {"n"}
Costs == {1}
ReqQuantities == 0 .. (MaxQty + 1) \* requested quantities, 0 is non-positive
SaleIDs == {"u1"}                  \* values of uuid.New() for sales
Times == {1}                       \* values of time.Now()

VARIABLES
    products,   \* products table: product id -> row
    auditLogs,  \* audit_logs table, rows in ascending id order
    auditSeq,   \* AUTOINCREMENT sequence of audit_logs
    sales,      \* sales table (set of rows)
    saleItems,  \* sale_items table, rows in insertion order
    last,       \* the last service call: its name, error and return value
    call,       \* the inputs of the last service call, where observed
    tamper,     \* the out-of-band modification made to audit_logs, if any
    svc,        \* one AuditService instance: its prevHash and lastHash fields
    procs       \* the product calls in flight: goroutine -> its position

vars == <<products, auditLogs, auditSeq, sales, saleItems, last, call, tamper,
          svc, procs>>

\* ------------------------------------------------------- text conversions

\* encoding/json writes the keys of a map in sorted order.
JSONKeyOrder ==
    <<"action", "item_count", "name", "product_id", "sale_id", "sku", "total_amount">>

JSONNumberKeys == {"item_count", "total_amount"}

JSONValue(k, v) ==
    IF k \in JSONNumberKeys THEN ToString(v) ELSE "\"" \o v \o "\""

RECURSIVE MarshalFields(_, _, _)
MarshalFields(p, i, first) ==
    IF i > Len(JSONKeyOrder) THEN ""
    ELSE LET k == JSONKeyOrder[i] IN
         IF k \in DOMAIN p
         THEN (IF first THEN "" ELSE ",") \o "\"" \o k \o "\":"
                  \o JSONValue(k, p[k]) \o MarshalFields(p, i + 1, FALSE)
         ELSE MarshalFields(p, i + 1, first)

\* json.Marshal(payload): the payloads of this core hold strings and finite
\* numbers only, for which Marshal returns no error.
Marshal(p) == [bytes |-> "{" \o MarshalFields(p, 1, TRUE) \o "}", err |-> FALSE]

\* timestamp.Format(time.RFC3339Nano)
FormatRFC3339Nano(t) == "2026-01-01T00:00:0" \o ToString(t) \o "Z"

\* fmt.Sprintf("%x", sha256.Sum256(input)), collision-free
SHA256Hex(input) == "sha256(" \o input \o ")"

\* ------------------------------------------------------------ audit service

\* AuditService.calculateHash (service side, from the payload map)
SvcCalculateHash_NoPrev(payload, timestamp, prevHash) ==
    LET m == Marshal(payload)
        payloadBytes == IF m.err THEN "{}" ELSE m.bytes
    IN SHA256Hex(payloadBytes \o FormatRFC3339Nano(timestamp))

SvcCalculateHash(payload, timestamp, prevHash) ==
    LET m == Marshal(payload)
        payloadBytes == IF m.err THEN "{}" ELSE m.bytes
    IN SHA256Hex(payloadBytes \o FormatRFC3339Nano(timestamp) \o prevHash)

\* AuditLogRepository.calculateHash (verifier side, from the stored text)
RepoCalculateHash(payloadJSON, timestamp, prevHash) ==
    SHA256Hex(payloadJSON \o FormatRFC3339Nano(timestamp) \o prevHash)

\* sql.NullString{String: s, Valid: s != ""}
NullString(s) == [String |-> s, Valid |-> s # ""]

\* An insert that does not advance the AUTOINCREMENT sequence.
RepoCreate_SequenceStuck(t, log, insertFails) ==
    LET m == Marshal(log.Payload) IN
    IF m.err \/ insertFails
    THEN [logs |-> t.logs, seq |-> t.seq, err |-> TRUE]
    ELSE [logs |-> Append(t.logs,
                     [id          |-> t.seq + 1,
                      action      |-> log.Action,
                      userID      |-> log.UserID,
                      timestamp   |-> log.Timestamp,
                      payload     |-> m.bytes,
                      prevHash    |-> NullString(log.PrevHash),
                      currentHash |-> log.CurrentHash]),
          seq |-> t.seq,
          err |-> FALSE]

\* AuditLogRepository.Create: marshal the payload, insert the row, take the
\* next AUTOINCREMENT id.  t = [logs, seq]; fails when the insert fails.
RepoCreate(t, log, insertFails) ==
    LET m == Marshal(log.Payload) IN
    IF m.err \/ insertFails
    THEN [logs |-> t.logs, seq |-> t.seq, err |-> TRUE]
    ELSE [logs |-> Append(t.logs,
                     [id          |-> t.seq + 1,
                      action      |-> log.Action,
                      userID      |-> log.UserID,
                      timestamp   |-> log.Timestamp,
                      payload     |-> m.bytes,
                      prevHash    |-> NullString(log.PrevHash),
                      currentHash |-> log.CurrentHash]),
          seq |-> t.seq + 1,
          err |-> FALSE]

\* A seeding that uses the last hash although the read reported an error.
LastHashOrEmpty_IgnoreError(logs, readFails) ==
    IF Len(logs) > 0 THEN logs[Len(logs)].currentHash ELSE ""

\* AuditLogRepository.GetLastLog followed by the callers' common idiom
\*   if err == nil && lastLog != nil { prevHash = lastLog.CurrentHash }
LastHashOrEmpty(logs, readFails) ==
    IF ~readFails /\ Len(logs) > 0 THEN logs[Len(logs)].currentHash ELSE ""

NoOverride == [set |-> FALSE, hash |-> ""]
Override(h) == [set |-> TRUE, hash |-> h]   \* AuditService.SetPrevHash

\* NewAuditService: no override (prevHash nil), lastHash the zero string.
NewAuditService == [prevHash |-> NoOverride, lastHash |-> ""]

\* AuditService.LogAction on an instance whose override is `override`.
\* Returns the table, the error of the insert and the instance's lastHash.
LogAction(t, override, action, userID, payload, now, readFails, insertFails) ==
    LET prevHash == IF override.set THEN override.hash
                    ELSE LastHashOrEmpty(t.logs, readFails)
        hash == SvcCalculateHash(payload, now, prevHash)
        log == [Action |-> action, UserID |-> userID, Timestamp |-> now,
                Payload |-> payload, PrevHash |-> prevHash,
                CurrentHash |-> hash]
        r == RepoCreate(t, log, insertFails)
    IN [logs |-> r.logs, seq |-> r.seq, err |-> r.err, lastHash |-> hash]

\* A verifier that checks the links only and never recomputes a hash.
RECURSIVE VerifyFrom_LinkOnly(_, _, _)
VerifyFrom_LinkOnly(rows, i, prevHash) ==
    IF i > Len(rows) THEN TRUE
    ELSE LET row == rows[i] IN
         IF row.prevHash.Valid /\ row.prevHash.String # prevHash THEN FALSE
         ELSE VerifyFrom_LinkOnly(rows, i + 1, row.currentHash)

\* A verifier whose `return true` sits inside the loop: it checks one row.
VerifyFrom_EarlyReturn(rows, i, prevHash) ==
    IF i > Len(rows) THEN TRUE
    ELSE LET row == rows[i] IN
         IF row.prevHash.Valid /\ row.prevHash.String # prevHash THEN FALSE
         ELSE IF row.currentHash
                   # RepoCalculateHash(row.payload, row.timestamp, prevHash)
              THEN FALSE
              ELSE TRUE

\* AuditLogRepository.VerifyChain: the loop over the rows in ascending id
\* order, prevHash being the running expected hash.
RECURSIVE VerifyFrom(_, _, _)
VerifyFrom(rows, i, prevHash) ==
    IF i > Len(rows) THEN TRUE
    ELSE LET row == rows[i] IN
         IF row.prevHash.Valid /\ row.prevHash.String # prevHash THEN FALSE
         ELSE IF row.currentHash
                   # RepoCalculateHash(row.payload, row.timestamp, prevHash)
              THEN FALSE
              ELSE VerifyFrom(rows, i + 1, row.currentHash)

VerifyChain(rows) == IF Len(rows) = 0 THEN TRUE ELSE VerifyFrom(rows, 1, "")

\* ------------------------------------------------------- product repository

\* Product.Properties of a product that has none
NoProperties == [k \in {} |-> ""]

Product(id, name, sku, basePrice, costPrice, quantity) ==
    [id |-> id, name |-> name, sku |-> sku, basePrice |-> basePrice,
     costPrice |-> costPrice, quantity |-> quantity,
     properties |-> NoProperties]

\* A products table without the UNIQUE constraint on sku.
SkuTaken_Never(tbl, sku, exceptID) == FALSE

\* sku TEXT UNIQUE NOT NULL: another row of tbl has the sku.
SkuTaken(tbl, sku, exceptID) ==
    \E i \in DOMAIN tbl : i # exceptID /\ tbl[i].sku = sku

\* ProductRepository.Create: INSERT; id is the primary key, sku is UNIQUE.
ProductCreate(tbl, p, fails) ==
    IF fails \/ p.id \in DOMAIN tbl \/ SkuTaken(tbl, p.sku, p.id)
    THEN [tbl |-> tbl, err |-> TRUE]
    ELSE [tbl |-> tbl @@ (p.id :> p), err |-> FALSE]

\* ProductRepository.Update: UPDATE ... WHERE id = ?; no row is no error.
ProductUpdate(tbl, p, fails) ==
    IF fails \/ (p.id \in DOMAIN tbl /\ SkuTaken(tbl, p.sku, p.id))
    THEN [tbl |-> tbl, err |-> TRUE]
    ELSE IF p.id \in DOMAIN tbl
         THEN [tbl |-> [tbl EXCEPT ![p.id] = p], err |-> FALSE]
         ELSE [tbl |-> tbl, err |-> FALSE]

\* A DELETE that reports a missing row as an error.
ProductDelete_NotFound(tbl, id, fails) ==
    IF fails \/ id \notin DOMAIN tbl THEN [tbl |-> tbl, err |-> TRUE]
    ELSE [tbl |-> [i \in DOMAIN tbl \ {id} |-> tbl[i]], err |-> FALSE]

\* ProductRepository.Delete: DELETE ... WHERE id = ?; no row is no error.
ProductDelete(tbl, id, fails) ==
    IF fails THEN [tbl |-> tbl, err |-> TRUE]
    ELSE [tbl |-> [i \in DOMAIN tbl \ {id} |-> tbl[i]], err |-> FALSE]

\* ProductRepository.GetByID
ProductGetByID(tbl, id, fails) ==
    IF fails \/ id \notin DOMAIN tbl
    THEN [found |-> FALSE, err |-> TRUE]
    ELSE [found |-> TRUE, err |-> FALSE, product |-> tbl[id]]

\* ------------------------------------------------------------ sale repository

\* SaleRepository.CreateSaleItem: INSERT INTO sale_items
CreateSaleItem(tbl, item, fails) ==
    IF fails THEN [tbl |-> tbl, err |-> TRUE]
    ELSE [tbl |-> Append(tbl, item), err |-> FALSE]

\* SaleRepository.CreateSale: INSERT INTO sales; id is the primary key.
CreateSale(tbl, sale, fails) ==
    IF fails \/ (\E s \in tbl : s.id = sale.id)
    THEN [tbl |-> tbl, err |-> TRUE]
    ELSE [tbl |-> tbl \cup {sale}, err |-> FALSE]

\* ------------------------------------------------------------- atomic scope

DB == [products |-> products, logs |-> auditLogs, seq |-> auditSeq,
       sales |-> sales, saleItems |-> saleItems]

\* An atomic scope that rolls back on an error return only: the changes of
\* a work function that panics are kept.
WithTx_CommitOnPanic(db, r) ==
    IF r.err = "nil" \/ r.err = "panic" THEN r.db ELSE db

\* TransactionManager.WithTx: r is the outcome of the work function run on
\* the transaction-scoped stores, r.db the store as the work left it.
\* Commit when the work returns nil, roll back otherwise.
WithTx(db, r) == IF r.err = "nil" THEN r.db ELSE db

\* ---------------------------------------------------------------- faults
\* One storage call of a service call may fail: kind names the call, at the
\* iteration of the item/row loop (1 outside loops).
NoFault == [kind |-> "none", at |-> 1]
Fault(kind, at) == [kind |-> kind, at |-> at]
Hits(fault, kind, at) == fault.kind = kind /\ fault.at = at

\* ------------------------------------------------------------ sale service

\* A stock check that lets a request exceed the stock by one.
InsufficientStock_OffByOne(product, item) ==
    product.quantity + 1 < item.quantity

\* ProcessSale's stock check: product.Quantity < item.Quantity
InsufficientStock(product, item) == product.quantity < item.quantity

\* A line total taken from the cost price.
LineTotal_CostPrice(product, item) == product.costPrice * item.quantity

\* ProcessSale's line total: product.BasePrice * float64(item.Quantity);
\* the prices of the model are small integers, exact in float64.
LineTotal(product, item) == product.basePrice * item.quantity

\* A sale item whose unit price is taken from the cost price.
SnapshotItem_CostAsUnit(saleID, product, item) ==
    [saleID |-> saleID, productID |-> item.productID,
     quantity |-> item.quantity,
     unitPrice |-> product.costPrice,
     costPrice |-> product.costPrice]

\* The SaleItem ProcessSale builds, with its price snapshots.
SnapshotItem(saleID, product, item) ==
    [saleID |-> saleID, productID |-> item.productID,
     quantity |-> item.quantity,
     unitPrice |-> product.basePrice,
     costPrice |-> product.costPrice]

\* The item loop of ProcessSale, from item i on.  st = [db, total].
RECURSIVE SaleItemLoop(_, _, _, _, _)
SaleItemLoop(st, saleID, items, i, fault) ==
    IF i > Len(items) THEN [db |-> st.db, total |-> st.total, err |-> "nil"]
    ELSE
    LET item == items[i]
        stop(e) == [db |-> st.db, total |-> st.total, err |-> e]
        g == ProductGetByID(st.db.products, item.productID,
                            Hits(fault, "GetByID", i))
    IN
    IF item.quantity <= 0 THEN stop("invalid quantity")
    ELSE IF g.err THEN stop("product not found")
    ELSE IF InsufficientStock(g.product, item) THEN stop("insufficient stock")
    ELSE
    LET product == [g.product EXCEPT !.quantity = @ - item.quantity]
        u == ProductUpdate(st.db.products, product, Hits(fault, "Update", i))
        saleItem == SnapshotItem(saleID, product, item)
        c == CreateSaleItem(st.db.saleItems, saleItem,
                            Hits(fault, "CreateSaleItem", i))
    IN
    IF u.err THEN stop("update stock")
    ELSE IF c.err
    THEN [db |-> [st.db EXCEPT !.products = u.tbl], total |-> st.total,
          err |-> "create sale item"]
    ELSE SaleItemLoop(
             [db |-> [st.db EXCEPT !.products = u.tbl, !.saleItems = c.tbl],
              total |-> st.total + LineTotal(product, item)],
             saleID, items, i + 1, fault)

\* The work function ProcessSale hands to WithTx.
ProcessSaleTx_AuditNonFatal(db, saleID, items, now, fault) ==
    LET loop == SaleItemLoop([db |-> db, total |-> 0], saleID, items, 1, fault)
        sale == [id |-> saleID, totalAmount |-> loop.total]
        cs == CreateSale(loop.db.sales, sale, Hits(fault, "CreateSale", 1))
        prevHash == LastHashOrEmpty(loop.db.logs, Hits(fault, "GetLastLog", 1))
        la == LogAction([logs |-> loop.db.logs, seq |-> loop.db.seq],
                        Override(prevHash), "SALE_PROCESSED", "system",
                        [sale_id |-> saleID, total_amount |-> loop.total,
                         item_count |-> Len(items)],
                        now, FALSE, Hits(fault, "AuditCreate", 1))
    IN
    IF loop.err # "nil" THEN [db |-> loop.db, sale |-> sale, err |-> loop.err]
    ELSE IF cs.err THEN [db |-> loop.db, sale |-> sale, err |-> "create sale"]
    ELSE [db |-> [loop.db EXCEPT !.sales = cs.tbl, !.logs = la.logs,
                                 !.seq = la.seq],
          sale |-> sale, err |-> "nil"]

ProcessSaleTx(db, saleID, items, now, fault) ==
    LET loop == SaleItemLoop([db |-> db, total |-> 0], saleID, items, 1, fault)
        sale == [id |-> saleID, totalAmount |-> loop.total]
        cs == CreateSale(loop.db.sales, sale, Hits(fault, "CreateSale", 1))
        prevHash == LastHashOrEmpty(loop.db.logs, Hits(fault, "GetLastLog", 1))
        la == LogAction([logs |-> loop.db.logs, seq |-> loop.db.seq],
                        Override(prevHash), "SALE_PROCESSED", "system",
                        [sale_id |-> saleID, total_amount |-> loop.total,
                         item_count |-> Len(items)],
                        now, FALSE, Hits(fault, "AuditCreate", 1))
    IN
    IF loop.err # "nil" THEN [db |-> loop.db, sale |-> sale, err |-> loop.err]
    ELSE IF cs.err THEN [db |-> loop.db, sale |-> sale, err |-> "create sale"]
    ELSE IF la.err
    THEN [db |-> [loop.db EXCEPT !.sales = cs.tbl], sale |-> sale,
          err |-> "audit log"]
    ELSE [db |-> [loop.db EXCEPT !.sales = cs.tbl, !.logs = la.logs,
                                 !.seq = la.seq],
          sale |-> sale, err |-> "nil"]

\* --------------------------------------------------------- product service

\* strconv.ParseFloat(s, 64) on the price texts of the model
ParseFloat(s) ==
    IF s = "1" THEN [v |-> 1, err |-> FALSE]
    ELSE IF s = "2" THEN [v |-> 2, err |-> FALSE]
    ELSE [v |-> 0, err |-> TRUE]

\* colIndex[h] = i for i, h := range headers (a later duplicate wins)
ColIndex(headers) ==
    [h \in {headers[i] : i \in DOMAIN headers} |->
        CHOOSE i \in DOMAIN headers :
            /\ headers[i] = h
            /\ \A j \in DOMAIN headers : headers[j] = h => j <= i]

\* colIndex[k] of a Go map[string]int: the zero value for a missing key,
\* which is the first column (the model counts columns from 1).
Col(colIndex, k) == IF k \in DOMAIN colIndex THEN colIndex[k] ELSE 1

\* The mandatory columns without sku.
RequiredColumns_NoSku == <<"name", "base_price">>

RequiredColumns == <<"name", "sku", "base_price">>

\* A property value with its Go dynamic type ("string", "bool", "float64",
\* "int" and the like, or "nil" for a JSON null) and its text.
Value(kind, v) == [kind |-> kind, v |-> v]

\* The properties ImportProducts builds from the extra columns of a row.
RowProperties(colIndex, row) ==
    [h \in DOMAIN colIndex \ {"name", "sku", "base_price"} |->
        Value("string", row[colIndex[h]])]

\* domain.AttributeDefinition
AttributeDefinition(key, type, required, options) ==
    [key |-> key, type |-> type, required |-> required, options |-> options]

\* categoryID = "": no blueprint (category == nil).
NoCategory == [id |-> "", attributeDefinitions |-> <<>>]

\* domain.Category with its blueprint.
Category(id, attributeDefinitions) ==
    [id |-> id, attributeDefinitions |-> attributeDefinitions]

\* A numeric test that accepts no text.
IsNumeric_NativeOnly(val) ==
    val.kind \in {"float64", "float32", "int", "int32", "int64"}

\* isNumeric
IsNumeric(val) ==
    IF val.kind \in {"float64", "float32", "int", "int32", "int64"} THEN TRUE
    ELSE IF val.kind = "string" THEN ~ParseFloat(val.v).err
    ELSE FALSE

\* contains
Contains(slice, item) == \E i \in DOMAIN slice : slice[i] = item

\* The type switch of ValidateProperties: the error text, "nil" for none.
CheckType(attr, val) ==
    CASE attr.type = "string" ->
             IF val.kind # "string"
             THEN "property " \o attr.key \o " must be a string" ELSE "nil"
      [] attr.type = "number" ->
             IF ~IsNumeric(val)
             THEN "property " \o attr.key \o " must be a number" ELSE "nil"
      [] attr.type = "boolean" ->
             IF val.kind # "bool"
             THEN "property " \o attr.key \o " must be a boolean" ELSE "nil"
      [] attr.type = "select" ->
             IF val.kind # "string"
             THEN "property " \o attr.key \o " must be a string for select type"
             ELSE IF Len(attr.options) > 0 /\ ~Contains(attr.options, val.v)
             THEN "property " \o attr.key \o " is not in allowed options"
             ELSE "nil"
      [] OTHER -> "nil"

\* The loop of ValidateProperties over the attribute definitions, from
\* definition i on.
RECURSIVE ValidateFrom(_, _, _)
ValidateFrom(defs, properties, i) ==
    IF i > Len(defs) THEN "nil"
    ELSE LET attr == defs[i]
             exists == attr.key \in DOMAIN properties
         IN IF attr.required /\ ~exists
            THEN "missing required property " \o attr.key
            ELSE IF ~exists THEN ValidateFrom(defs, properties, i + 1)
            ELSE LET e == CheckType(attr, properties[attr.key])
                 IN IF e # "nil" THEN e
                    ELSE ValidateFrom(defs, properties, i + 1)

\* ValidateProperties: "nil", or the text of the ErrInvalidProperty error.
ValidateProperties(category, properties) ==
    IF category.id = "" THEN "nil"
    ELSE ValidateFrom(category.attributeDefinitions, properties, 1)

\* A row loop that goes on when the audit append fails.
RECURSIVE ImportRowLoop_AuditNonFatal(_, _, _, _, _, _, _, _, _)
ImportRowLoop_AuditNonFatal(db, prevHash, category, headers, rows, ids, i, now, fault) ==
    IF i > Len(rows) THEN [db |-> db, err |-> "nil", imported |-> i - 1]
    ELSE
    LET row == rows[i]
        colIndex == ColIndex(headers)
        stop(e) == [db |-> db, err |-> e, imported |-> i - 1]
    IN
    IF Len(row) # Len(headers) THEN stop("column count")
    ELSE
    LET name == row[Col(colIndex, "name")]
        sku == row[Col(colIndex, "sku")]
        basePrice == ParseFloat(row[Col(colIndex, "base_price")])
        properties == RowProperties(colIndex, row)
        product == [Product(ids[i], name, sku, basePrice.v, 0, 0)
                        EXCEPT !.properties = properties]
        c == ProductCreate(db.products, product, Hits(fault, "Create", i))
        la == LogAction([logs |-> db.logs, seq |-> db.seq], Override(prevHash),
                        "CREATE_PRODUCT", "system",
                        [product_id |-> product.id, action |-> "import_product",
                         sku |-> product.sku, name |-> product.name],
                        now, FALSE, Hits(fault, "AuditCreate", i))
    IN
    IF name = "" \/ sku = "" THEN stop("name and sku are required")
    ELSE IF basePrice.err THEN stop("invalid base_price")
    ELSE IF ValidateProperties(category, properties) # "nil"
    THEN stop("invalid property")
    ELSE IF c.err THEN stop("insert product")
    ELSE ImportRowLoop_AuditNonFatal(
             [db EXCEPT !.products = c.tbl, !.logs = la.logs, !.seq = la.seq],
             la.lastHash, category, headers, rows, ids, i + 1, now, fault)

\* A row loop that takes the previous hash of every row from a read that
\* still returns the last entry committed before the scope.
RECURSIVE ImportRowLoop_RereadStale(_, _, _, _, _, _, _, _, _)
ImportRowLoop_RereadStale(db, prevHash, category, headers, rows, ids, i, now, fault) ==
    IF i > Len(rows) THEN [db |-> db, err |-> "nil", imported |-> i - 1]
    ELSE
    LET row == rows[i]
        colIndex == ColIndex(headers)
        stop(e) == [db |-> db, err |-> e, imported |-> i - 1]
    IN
    IF Len(row) # Len(headers) THEN stop("column count")
    ELSE
    LET name == row[Col(colIndex, "name")]
        sku == row[Col(colIndex, "sku")]
        basePrice == ParseFloat(row[Col(colIndex, "base_price")])
        properties == RowProperties(colIndex, row)
        product == [Product(ids[i], name, sku, basePrice.v, 0, 0)
                        EXCEPT !.properties = properties]
        c == ProductCreate(db.products, product, Hits(fault, "Create", i))
        la == LogAction([logs |-> db.logs, seq |-> db.seq], Override(prevHash),
                        "CREATE_PRODUCT", "system",
                        [product_id |-> product.id, action |-> "import_product",
                         sku |-> product.sku, name |-> product.name],
                        now, FALSE, Hits(fault, "AuditCreate", i))
    IN
    IF name = "" \/ sku = "" THEN stop("name and sku are required")
    ELSE IF basePrice.err THEN stop("invalid base_price")
    ELSE IF ValidateProperties(category, properties) # "nil"
    THEN stop("invalid property")
    ELSE IF c.err THEN stop("insert product")
    ELSE IF la.err
    THEN [db |-> [db EXCEPT !.products = c.tbl], err |-> "audit log",
          imported |-> i - 1]
    ELSE ImportRowLoop_RereadStale(
             [db EXCEPT !.products = c.tbl, !.logs = la.logs, !.seq = la.seq],
             prevHash, category, headers, rows, ids, i + 1, now, fault)

\* The row loop of ImportProducts, from row i on; prevHash is the local
\* variable threaded through the loop, ids the uuids of the new products.
RECURSIVE ImportRowLoop(_, _, _, _, _, _, _, _, _)
ImportRowLoop(db, prevHash, category, headers, rows, ids, i, now, fault) ==
    IF i > Len(rows) THEN [db |-> db, err |-> "nil", imported |-> i - 1]
    ELSE
    LET row == rows[i]
        colIndex == ColIndex(headers)
        stop(e) == [db |-> db, err |-> e, imported |-> i - 1]
    IN
    IF Len(row) # Len(headers) THEN stop("column count")
    ELSE
    LET name == row[Col(colIndex, "name")]
        sku == row[Col(colIndex, "sku")]
        basePrice == ParseFloat(row[Col(colIndex, "base_price")])
        properties == RowProperties(colIndex, row)
        product == [Product(ids[i], name, sku, basePrice.v, 0, 0)
                        EXCEPT !.properties = properties]
        c == ProductCreate(db.products, product, Hits(fault, "Create", i))
        la == LogAction([logs |-> db.logs, seq |-> db.seq], Override(prevHash),
                        "CREATE_PRODUCT", "system",
                        [product_id |-> product.id, action |-> "import_product",
                         sku |-> product.sku, name |-> product.name],
                        now, FALSE, Hits(fault, "AuditCreate", i))
    IN
    IF name = "" \/ sku = "" THEN stop("name and sku are required")
    ELSE IF basePrice.err THEN stop("invalid base_price")
    ELSE IF ValidateProperties(category, properties) # "nil"
    THEN stop("invalid property")
    ELSE IF c.err THEN stop("insert product")
    ELSE IF la.err
    THEN [db |-> [db EXCEPT !.products = c.tbl], err |-> "audit log",
          imported |-> i - 1]
    ELSE ImportRowLoop(
             [db EXCEPT !.products = c.tbl, !.logs = la.logs, !.seq = la.seq],
             la.lastHash, category, headers, rows, ids, i + 1, now, fault)

\* The work function ImportProducts hands to WithTx.
ImportTx(db, category, headers, rows, ids, now, fault) ==
    ImportRowLoop(db,
                  LastHashOrEmpty(db.logs, Hits(fault, "GetLastLog", 1)),
                  category, headers, rows, ids, 1, now, fault)

\* The outcome of a service call: the store after it, its error ("nil" for
\* none) and its return value.
Outcome(db, err, ret) == [db |-> db, err |-> err, ret |-> ret]

AuditTable(db) == [logs |-> db.logs, seq |-> db.seq]

\* What the three ambient-mode calls do with the result of LogAction: the
\* error is dropped, whatever was appended stays.
AfterAmbientLog(db, la) == [db EXCEPT !.logs = la.logs, !.seq = la.seq]

\* A CreateProduct that returns the error of the audit append.
CreateProductCall_AuditFatal(db, p, now, fault) ==
    LET c == ProductCreate(db.products, p, Hits(fault, "Create", 1))
        db1 == [db EXCEPT !.products = c.tbl]
        la == LogAction(AuditTable(db1), NoOverride, "CREATE_PRODUCT", "system",
                        [product_id |-> p.id, action |-> "create_product",
                         sku |-> p.sku, name |-> p.name],
                        now, Hits(fault, "GetLastLog", 1),
                        Hits(fault, "AuditCreate", 1))
    IN IF c.err THEN Outcome(db, "create product", 0)
       ELSE IF la.err THEN Outcome(db1, "audit log", 0)
       ELSE Outcome(AfterAmbientLog(db1, la), "nil", 0)

\* ProductService.CreateProduct (product.CategoryID = "": no blueprint)
CreateProductCall(db, p, now, fault) ==
    LET c == ProductCreate(db.products, p, Hits(fault, "Create", 1))
        db1 == [db EXCEPT !.products = c.tbl]
        la == LogAction(AuditTable(db1), NoOverride, "CREATE_PRODUCT", "system",
                        [product_id |-> p.id, action |-> "create_product",
                         sku |-> p.sku, name |-> p.name],
                        now, Hits(fault, "GetLastLog", 1),
                        Hits(fault, "AuditCreate", 1))
    IN IF c.err THEN Outcome(db, "create product", 0)
       ELSE Outcome(AfterAmbientLog(db1, la), "nil", 0)

\* ProductService.UpdateProduct
UpdateProductCall(db, p, now, fault) ==
    LET u == ProductUpdate(db.products, p, Hits(fault, "Update", 1))
        db1 == [db EXCEPT !.products = u.tbl]
        la == LogAction(AuditTable(db1), NoOverride, "UPDATE_PRODUCT", "system",
                        [product_id |-> p.id, action |-> "update_product",
                         sku |-> p.sku],
                        now, Hits(fault, "GetLastLog", 1),
                        Hits(fault, "AuditCreate", 1))
    IN IF u.err THEN Outcome(db, "update product", 0)
       ELSE Outcome(AfterAmbientLog(db1, la), "nil", 0)

\* ProductService.DeleteProduct
DeleteProductCall(db, id, now, fault) ==
    LET d == ProductDelete(db.products, id, Hits(fault, "Delete", 1))
        db1 == [db EXCEPT !.products = d.tbl]
        la == LogAction(AuditTable(db1), NoOverride, "DELETE_PRODUCT", "system",
                        [product_id |-> id, action |-> "delete_product"],
                        now, Hits(fault, "GetLastLog", 1),
                        Hits(fault, "AuditCreate", 1))
    IN IF d.err THEN Outcome(db, "delete product", 0)
       ELSE Outcome(AfterAmbientLog(db1, la), "nil", 0)

\* SaleService.ProcessSale; saleID is uuid.New().  Returns the sale's total.
ProcessSaleCall(db, saleID, items, now, fault) ==
    IF Len(items) = 0 THEN Outcome(db, "no items in sale", 0)
    ELSE LET r == ProcessSaleTx(db, saleID, items, now, fault) IN
         IF r.err # "nil" THEN Outcome(WithTx(db, r), r.err, 0)
         ELSE Outcome(WithTx(db, r), "nil", r.sale.totalAmount)

\* ProductService.ImportProducts; category is the blueprint of categoryID
\* (NoCategory for ""), the CSV text has been split into headers and rows
\* (no header row: headers = <<>>).  Returns the number of imported rows.
ImportProductsCall(db, category, headers, rows, ids, now, fault) ==
    IF category.id # "" /\ Hits(fault, "CategoryGetByID", 1)
    THEN Outcome(db, "category lookup", 0)
    ELSE IF Len(headers) = 0 THEN Outcome(db, "read CSV header", 0)
    ELSE IF \E i \in DOMAIN RequiredColumns :
                RequiredColumns[i] \notin DOMAIN ColIndex(headers)
    THEN Outcome(db, "missing required CSV column", 0)
    ELSE IF \E i \in DOMAIN rows : Len(rows[i]) # Len(headers)
    THEN Outcome(db, "read CSV row", 0)
    ELSE IF Len(rows) = 0 THEN Outcome(db, "nil", 0)
    ELSE LET r == ImportTx(db, category, headers, rows, ids, now, fault) IN
         IF r.err # "nil" THEN Outcome(WithTx(db, r), r.err, 0)
         ELSE Outcome(WithTx(db, r), "nil", r.imported)

\* ----------------------------------------------------------------- actions
\* One action per service call, its inputs as parameters.

Apply(op, o) ==
    /\ products' = o.db.products
    /\ auditLogs' = o.db.logs
    /\ auditSeq' = o.db.seq
    /\ sales' = o.db.sales
    /\ saleItems' = o.db.saleItems
    /\ last' = [op |-> op, err |-> o.err, ret |-> o.ret]
    /\ UNCHANGED <<tamper, svc, procs>>

CreateProduct(p, now, fault) ==
    Apply("CreateProduct", CreateProductCall(DB, p, now, fault))

UpdateProduct(p, now, fault) ==
    Apply("UpdateProduct", UpdateProductCall(DB, p, now, fault))

DeleteProduct(id, now, fault) ==
    Apply("DeleteProduct", DeleteProductCall(DB, id, now, fault))

ProcessSale(saleID, items, now, fault) ==
    Apply("ProcessSale", ProcessSaleCall(DB, saleID, items, now, fault))

ImportProducts(category, headers, rows, ids, now, fault) ==
    Apply("ImportProducts",
          ImportProductsCall(DB, category, headers, rows, ids, now, fault))

\* AuditService.VerifyAuditChain; a failed SELECT yields (false, err).
VerifyAuditChain(fails) ==
    /\ last' = [op |-> "VerifyAuditChain",
                err |-> IF fails THEN "select" ELSE "nil",
                ret |-> IF fails THEN FALSE ELSE VerifyChain(auditLogs)]
    /\ UNCHANGED <<products, auditLogs, auditSeq, sales, saleItems, call, tamper,
                   svc, procs>>

\* The inputs of a call are recorded (Observe) or not (Blind).
NoCall == [arg |-> <<>>, fault |-> [kind |-> "none", at |-> 1]]
Observe(arg, fault) == call' = [arg |-> arg, fault |-> fault]
Blind == UNCHANGED call

\* ------------------------------------------------------------------ inputs

SeqsUpTo(S, n) == UNION {[1 .. k -> S] : k \in 0 .. n}

Distinct(s) == \A i, j \in DOMAIN s : i # j => s[i] # s[j]

FaultInputs(kinds, loopKinds, n) ==
    {NoFault} \cup {Fault(k, 1) : k \in kinds}
              \cup {Fault(k, i) : k \in loopKinds, i \in 1 .. n}

SaleFaults(n) ==
    FaultInputs({"CreateSale", "GetLastLog", "AuditCreate"},
                {"GetByID", "Update", "CreateSaleItem"}, n)

ImportFaults(n) == FaultInputs({"GetLastLog"}, {"Create", "AuditCreate"}, n)

FreshSaleIDs == SaleIDs \ {s.id : s \in sales}
FreshProductIDs == ProductIDs \ DOMAIN products

\* --------------------------------------------------------- specification

EmptyTable == [i \in {} |-> i]
\* No product call is in flight.
NoProcs == [g \in {} |-> g]
NoTamper == [kind |-> "none", field |-> "", idx |-> 0, preLen |-> 0,
             preValid |-> TRUE]

Init ==
    /\ products = EmptyTable
    /\ auditLogs = <<>>
    /\ auditSeq = 0
    /\ sales = {}
    /\ saleItems = <<>>
    /\ last = [op |-> "none", err |-> "nil", ret |-> 0]
    /\ call = NoCall
    /\ tamper = NoTamper
    /\ svc = NewAuditService
    /\ procs = NoProcs

\* Spec: every service call, every storage fault, on a small catalogue.
ProductInputs ==
    {Product(id, n, sku, 1, cp, MaxQty) :
        id \in ProductIDs, n \in Names, sku \in SKUs, cp \in Costs}

ItemInputs == [productID : ProductIDs, quantity : {1}]

HeaderInputs == {<<"name", "sku", "base_price">>, <<"name", "sku">>}

RowInputs == {<<"n", "s1", "1">>, <<"n", "s2", "1">>, <<"n", "s1", "x">>}

Next ==
    \/ /\ Len(auditLogs) < MaxLog
       /\ \E p \in ProductInputs, now \in Times,
             fault \in FaultInputs({"Create", "GetLastLog", "AuditCreate"}, {}, 0) :
              CreateProduct(p, now, fault) /\ Blind
    \/ /\ Len(auditLogs) < MaxLog
       /\ \E p \in ProductInputs, now \in Times,
             fault \in FaultInputs({"Update", "GetLastLog", "AuditCreate"}, {}, 0) :
              UpdateProduct(p, now, fault) /\ Blind
    \/ /\ Len(auditLogs) < MaxLog
       /\ \E id \in ProductIDs, now \in Times,
             fault \in FaultInputs({"Delete", "GetLastLog", "AuditCreate"}, {}, 0) :
              DeleteProduct(id, now, fault) /\ Blind
    \/ /\ Len(auditLogs) < MaxLog
       /\ \E saleID \in FreshSaleIDs, now \in Times,
             items \in SeqsUpTo(ItemInputs, MaxItems),
             fault \in SaleFaults(MaxItems) :
              /\ fault.at <= Len(items) \/ fault.at = 1
              /\ ProcessSale(saleID, items, now, fault)
              /\ Blind
    \/ /\ Len(auditLogs) < MaxLog
       /\ \E headers \in HeaderInputs, rows \in SeqsUpTo(RowInputs, MaxRows),
             ids \in SeqsUpTo(FreshProductIDs, MaxRows), now \in Times,
             fault \in ImportFaults(MaxRows) :
              /\ Len(auditLogs) + Len(rows) <= MaxLog
              /\ Len(ids) = Len(rows) /\ Distinct(ids)
              /\ fault.at <= Len(rows) \/ fault.at = 1
              /\ ImportProducts(NoCategory, headers, rows, ids, now, fault)
              /\ Blind
    \/ \E fails \in BOOLEAN : VerifyAuditChain(fails)

Spec == Init /\ [][Next]_vars

\* ---------------------------------------------------------------- checkout
\* SpecSale: a catalogue of up to two stocked products, then sale requests
\* of every shape (quantities from 0 to above the stock, repeated products,
\* every storage fault), the request being recorded in call.  One request
\* is observed per behaviour; Spec runs sales one after another.

StockedProducts ==
    {Product("p1", "n", "s1", 1, 1, MaxQty)}
        \cup {Product("p2", "n", "s2", 2, 1, q) : q \in 1 .. MaxQty}

SaleItemInputs == [productID : ProductIDs, quantity : ReqQuantities]

NextSale ==
    \/ /\ Len(auditLogs) < MaxLog
       /\ \E p \in StockedProducts, now \in Times :
              CreateProduct(p, now, NoFault) /\ Blind
    \/ /\ call = NoCall
       /\ \E saleID \in FreshSaleIDs, now \in Times,
             items \in SeqsUpTo(SaleItemInputs, MaxItems),
             fault \in SaleFaults(MaxItems) :
              /\ fault.at <= Len(items) \/ fault.at = 1
              /\ ProcessSale(saleID, items, now, fault)
              /\ Observe(items, fault)

SpecSale == Init /\ [][NextSale]_vars

\* ------------------------------------------------------------ bulk import
\* SpecImport: a catalogue of up to two products, then, last, one import of every
\* shape (header rows with and without the mandatory columns, with extra
\* columns, rows with an empty name, a malformed price or a repeated sku,
\* with and without a blueprint, every storage fault), recorded in call.

ImportCatalog ==
    {Product("p1", "n", "s1", 1, 1, MaxQty), Product("p2", "n", "s1", 1, 1, MaxQty),
     Product("p2", "n", "s2", 1, 1, MaxQty)}

ImportCategories ==
    {NoCategory,
     Category("c1", <<AttributeDefinition("voltage", "string", TRUE, <<>>)>>)}

ImportHeaders ==
    {<<>>,
     <<"name", "sku", "base_price">>,
     <<"name", "base_price">>, <<"sku", "base_price">>, <<"name", "sku">>,
     <<"name", "sku", "base_price", "voltage">>,
     <<"name", "sku", "base_price", "quantity", "cost_price">>}

\* The data rows tried under a header row: rows of its length, and one
\* row of two fields.
ImportRows(headers) ==
    {r \in {<<"n", "s1", "1">>, <<"n", "s2", "2">>, <<"", "s2", "1">>,
             <<"n", "s2", "x">>,
             <<"n", "s2", "1", "5V">>,
             <<"n", "s2", "1", "2", "2">>} : Len(r) = Len(headers)}
        \cup {<<"n", "1">>}

\* uuid.New() for the rows of the one import of a behaviour
ImportIDs(n) == [k \in 1 .. n |-> "i" \o ToString(k)]

ImportRequest(category, headers, rows) ==
    [category |-> category, headers |-> headers, rows |-> rows]

NextImport ==
    \/ /\ Len(auditLogs) < MaxLog /\ call = NoCall
       /\ \E p \in ImportCatalog, now \in Times :
              CreateProduct(p, now, NoFault) /\ Blind
    \/ /\ Len(auditLogs) < MaxLog /\ call = NoCall
       /\ \E p \in ImportCatalog, now \in Times :
              p.id \in DOMAIN products /\ UpdateProduct(p, now, NoFault) /\ Blind
    \/ /\ call = NoCall
       /\ \E category \in ImportCategories, headers \in ImportHeaders,
             now \in Times,
             fault \in FaultInputs({"GetLastLog", "CategoryGetByID"},
                                   {"Create", "AuditCreate"}, MaxRows) :
              \E rows \in SeqsUpTo(ImportRows(headers), MaxRows) :
                  /\ fault.at <= Len(rows) \/ fault.at = 1
                  /\ ImportProducts(category, headers, rows,
                                    ImportIDs(Len(rows)), now, fault)
                  /\ Observe(ImportRequest(category, headers, rows), fault)

SpecImport == Init /\ [][NextImport]_vars

\* ------------------------------------------------------ product upkeep
\* SpecCatalog: products are created, repriced, restocked and deleted
\* between sales, with and without a failing product write or audit
\* append; the product calls are recorded in call.

CatalogInputs ==
    {Product("p1", "n", "s1", 1, 1, MaxQty), Product("p1", "n", "s1", 2, 2, MaxQty),
     Product("p1", "n", "s1", 1, 1, -1), Product("p2", "n", "s2", 2, 1, MaxQty)}

CatalogSales ==
    {<<[productID |-> "p1", quantity |-> 1]>>,
     <<[productID |-> "p2", quantity |-> 1], [productID |-> "p1", quantity |-> 1]>>}

CatalogImports == {<< <<"n", "s3", "1">> >>}

CatalogSaleIDs == {"u1", "u2"} \ {s.id : s \in sales}

NextCatalog ==
    \/ /\ Len(auditLogs) < MaxLog
       /\ \E p \in CatalogInputs, now \in Times,
             fault \in FaultInputs({"Create", "AuditCreate"}, {}, 0) :
              CreateProduct(p, now, fault) /\ Observe(p, fault)
    \/ /\ Len(auditLogs) < MaxLog
       /\ \E p \in CatalogInputs, now \in Times,
             fault \in FaultInputs({"AuditCreate"}, {}, 0) :
              UpdateProduct(p, now, fault) /\ Observe(p, fault)
    \/ /\ Len(auditLogs) < MaxLog
       /\ \E id \in {"p1"}, now \in Times,
             fault \in FaultInputs({"AuditCreate"}, {}, 0) :
              DeleteProduct(id, now, fault) /\ Observe([id |-> id], fault)
    \/ /\ Len(auditLogs) < MaxLog
       /\ \E saleID \in CatalogSaleIDs, items \in CatalogSales, now \in Times :
              ProcessSale(saleID, items, now, NoFault) /\ Observe(items, NoFault)
    \/ /\ Len(auditLogs) < MaxLog
       /\ \E rows \in CatalogImports, now \in Times,
             fault \in FaultInputs({}, {"AuditCreate"}, 1) :
              /\ ImportProducts(NoCategory, <<"name", "sku", "base_price">>,
                                rows, ImportIDs(Len(rows)), now, fault)
              /\ Observe(ImportRequest(NoCategory,
                                       <<"name", "sku", "base_price">>, rows),
                         fault)

SpecCatalog == Init /\ [][NextCatalog]_vars

\* ------------------------------------------------- failing read of the log
\* SpecReadFault: products are created, then one call of any kind is made
\* whose read of the last audit entry may fail; that call is recorded.

ReadFaults == FaultInputs({"GetLastLog"}, {}, 0)

ReadFaultRows == {<<"n", "s3", "1">>, <<"n", "s4", "2">>}

ReadFaultRequest(op, arg) == [op |-> op, arg |-> arg]

NextReadFault ==
    \/ /\ Len(auditLogs) < MaxLog /\ call = NoCall
       /\ \E p \in CatalogInputs, now \in Times :
              CreateProduct(p, now, NoFault) /\ Blind
    \/ /\ call = NoCall
       /\ \E p \in CatalogInputs, now \in Times, fault \in ReadFaults :
              /\ CreateProduct(p, now, fault)
              /\ Observe(ReadFaultRequest("CreateProduct", p), fault)
    \/ /\ call = NoCall
       /\ \E p \in CatalogInputs, now \in Times, fault \in ReadFaults :
              /\ UpdateProduct(p, now, fault)
              /\ Observe(ReadFaultRequest("UpdateProduct", p), fault)
    \/ /\ call = NoCall
       /\ \E id \in ProductIDs, now \in Times, fault \in ReadFaults :
              /\ DeleteProduct(id, now, fault)
              /\ Observe(ReadFaultRequest("DeleteProduct", [id |-> id]), fault)
    \/ /\ call = NoCall
       /\ \E saleID \in CatalogSaleIDs, items \in CatalogSales, now \in Times,
             fault \in ReadFaults :
              /\ ProcessSale(saleID, items, now, fault)
              /\ Observe(ReadFaultRequest("ProcessSale",
                                          [saleID |-> saleID, items |-> items]),
                         fault)
    \/ /\ call = NoCall
       /\ \E rows \in SeqsUpTo(ReadFaultRows, MaxRows), now \in Times,
             fault \in ReadFaults :
              /\ Len(rows) > 0
              /\ ImportProducts(NoCategory, <<"name", "sku", "base_price">>,
                                rows, ImportIDs(Len(rows)), now, fault)
              /\ Observe(ReadFaultRequest("ImportProducts",
                             ImportRequest(NoCategory,
                                           <<"name", "sku", "base_price">>,
                                           rows)),
                         fault)

SpecReadFault == Init /\ [][NextReadFault]_vars

\* ------------------------------------------------------ property validation
\* SpecValidate: ValidateProperties is applied to a blueprint of up to
\* MaxAttrs attribute definitions and a property map over two keys.

MaxAttrs == 2

\* Values as they reach the core: decoded JSON (string, float64, bool,
\* null), CSV text, and the int values of the unit tests.
PropertyValues ==
    {Value("string", "1"), Value("string", "abc"), Value("string", "Red"),
     Value("string", "red"), Value("float64", "1"), Value("int", "1"),
     Value("bool", "true"), Value("nil", "null")}

AttributeInputs ==
    {AttributeDefinition("a", t, r, <<>>) :
         t \in {"string", "number", "boolean", "select", "date"},
         r \in BOOLEAN}
    \cup {AttributeDefinition("a", "select", r, <<"Red", "Blue">>) : r \in BOOLEAN}
    \cup {AttributeDefinition("b", "number", TRUE, <<>>),
          AttributeDefinition("b", "string", FALSE, <<>>)}

CategoryInputs ==
    {NoCategory} \cup {Category("c1", defs) : defs \in SeqsUpTo(AttributeInputs, MaxAttrs)}

PropertyInputs ==
    UNION {[keys -> PropertyValues] : keys \in SUBSET {"a", "b"}}

ValidateRequest(category, properties) ==
    [category |-> category, properties |-> properties]

\* One call of ValidateProperties; the store is not involved.
Validate(category, properties) ==
    /\ last' = [op |-> "ValidateProperties",
                err |-> ValidateProperties(category, properties), ret |-> 0]
    /\ Observe(ValidateRequest(category, properties), NoFault)
    /\ UNCHANGED <<products, auditLogs, auditSeq, sales, saleItems, tamper,
                   svc, procs>>

NextValidate ==
    /\ call = NoCall
    /\ \E category \in CategoryInputs, properties \in PropertyInputs :
           Validate(category, properties)

SpecValidate == Init /\ [][NextValidate]_vars

\* ------------------------------------------------------------ product search
\* SpecSearch: one SearchProducts call on a stored catalogue of products
\* that have a category, properties and a creation time.  A filter key is a
\* sequence of characters, so that the key pattern is a real match.

MaxFilters == 2

Letters == {"a", "b"}
Digits == {"1"}

RECURSIVE KeyString(_)
KeyString(key) == IF key = <<>> THEN "" ELSE Head(key) \o KeyString(Tail(key))

\* A pattern that accepts every key.
ValidPropertyKey_Any(key) == TRUE

\* validPropertyKey = ^[a-zA-Z][a-zA-Z0-9_]*$
ValidPropertyKey(key) ==
    /\ Len(key) >= 1
    /\ key[1] \in Letters
    /\ \A i \in 2 .. Len(key) : key[i] \in Letters \cup Digits \cup {"_"}

\* A row of products as Search reads it.
SearchProduct(id, categoryID, basePrice, createdAt, properties) ==
    [id |-> id, categoryID |-> categoryID, basePrice |-> basePrice,
     createdAt |-> createdAt, properties |-> properties]

SearchCatalog ==
    LET s(v) == Value("string", v)
        row(id, c, price, at, props) == id :> SearchProduct(id, c, price, at, props)
    IN row("p1", "c1", 1, 1, ("a" :> s("x")) @@ ("1a" :> s("x")))
       @@ row("p2", "c1", 2, 2, ("a" :> s("y")) @@ ("a1" :> s("x")))
       @@ row("p3", "c1", 2, 3, ("a" :> s("x")) @@ ("b" :> s("y")))
       @@ row("p4", "", 1, 4, ("a" :> s("x")) @@ ("b" :> s("x")))

\* The categories table: c1 has the attributes a and 1a.
SearchCategories ==
    "c1" :> Category("c1", <<AttributeDefinition("a", "string", FALSE, <<>>),
                             AttributeDefinition("1a", "string", FALSE, <<>>)>>)

\* CategoryRepository.GetByID
CategoryGetByID(id, fails) ==
    IF fails \/ id \notin DOMAIN SearchCategories
    THEN [err |-> TRUE, category |-> NoCategory]
    ELSE [err |-> FALSE, category |-> SearchCategories[id]]

NoPrice == [set |-> FALSE, v |-> 0]
Price(v) == [set |-> TRUE, v |-> v]

\* domain.FilterOptions with Query = ""; properties is a set of
\* [key, val], one per key.
FilterOptions(categoryID, minPrice, maxPrice, properties, limit, offset) ==
    [categoryID |-> categoryID, minPrice |-> minPrice, maxPrice |-> maxPrice,
     properties |-> properties, limit |-> limit, offset |-> offset]

\* json_extract(p.properties, '$.key') = val for a text val
JSONExtractEquals(properties, key, val) ==
    /\ key \in DOMAIN properties
    /\ properties[key].kind = "string"
    /\ properties[key].v = val

\* The WHERE clauses Search builds, evaluated on one row.
Matches(row, opts, allowed) ==
    /\ opts.categoryID # "" => row.categoryID = opts.categoryID
    /\ opts.minPrice.set => row.basePrice >= opts.minPrice.v
    /\ opts.maxPrice.set => row.basePrice <= opts.maxPrice.v
    /\ \A f \in opts.properties :
           (KeyString(f.key) \in allowed /\ ValidPropertyKey(f.key))
               => JSONExtractEquals(row.properties, KeyString(f.key), f.val)

\* ORDER BY p.created_at DESC over the rows with the ids in ids
RECURSIVE NewestFirst(_, _)
NewestFirst(tbl, ids) ==
    IF ids = {} THEN <<>>
    ELSE LET top == CHOOSE i \in ids :
                        \A j \in ids : tbl[j].createdAt <= tbl[i].createdAt
         IN <<top>> \o NewestFirst(tbl, ids \ {top})

\* LIMIT ? OFFSET ?
Page(s, limit, offset) ==
    LET rest == SubSeq(s, offset + 1, Len(s))
    IN IF Len(rest) > limit THEN SubSeq(rest, 1, limit) ELSE rest

\* ProductRepository.Search; returns the ids of the rows in result order.
Search(tbl, opts, allowedKeys) ==
    LET ids == {i \in DOMAIN tbl : Matches(tbl[i], opts, allowedKeys)}
        limit == IF opts.limit <= 0 THEN 10 ELSE opts.limit
        offset == IF opts.offset < 0 THEN 0 ELSE opts.offset
    IN Page(NewestFirst(tbl, ids), limit, offset)

\* ProductService.SearchProducts
SearchProductsCall(tbl, opts, fault) ==
    IF opts.categoryID # ""
    THEN LET c == CategoryGetByID(opts.categoryID,
                                  Hits(fault, "CategoryGetByID", 1))
         IN IF c.err THEN [err |-> "category lookup", ret |-> <<>>]
            ELSE [err |-> "nil",
                  ret |-> Search(tbl, opts,
                                 {c.category.attributeDefinitions[i].key :
                                    i \in DOMAIN c.category.attributeDefinitions})]
    ELSE [err |-> "nil", ret |-> Search(tbl, opts, {})]

SearchProducts(opts, fault) ==
    /\ LET o == SearchProductsCall(products, opts, fault)
       IN last' = [op |-> "SearchProducts", err |-> o.err, ret |-> o.ret]
    /\ Observe(opts, fault)
    /\ UNCHANGED <<products, auditLogs, auditSeq, sales, saleItems, tamper,
                   svc, procs>>

FilterKeys == {<<"a">>, <<"a", "1">>, <<"1", "a">>, <<"b">>, <<"a", "_">>}

PropertyFilters ==
    {fs \in SUBSET [key : FilterKeys, val : {"x", "y"}] :
        /\ Cardinality(fs) <= MaxFilters
        /\ \A f, g \in fs : f.key = g.key => f = g}

FilterInputs ==
    {FilterOptions(c, lo, hi, fs, limit, offset) :
        c \in {"", "c1", "c9"}, lo \in {NoPrice, Price(2)},
        hi \in {NoPrice, Price(1)}, fs \in PropertyFilters,
        limit \in {0, 1}, offset \in {-1, 1}}

InitSearch ==
    /\ products = SearchCatalog
    /\ auditLogs = <<>>
    /\ auditSeq = 0
    /\ sales = {}
    /\ saleItems = <<>>
    /\ last = [op |-> "none", err |-> "nil", ret |-> <<>>]
    /\ call = NoCall
    /\ tamper = NoTamper
    /\ svc = NewAuditService
    /\ procs = NoProcs

NextSearch ==
    /\ call = NoCall
    /\ \E opts \in FilterInputs, fault \in FaultInputs({"CategoryGetByID"}, {}, 0) :
           SearchProducts(opts, fault)

SpecSearch == InitSearch /\ [][NextSearch]_vars

\* ------------------------------------------------- any work in a scope
\* SpecTx: after some products have been created, one work function is run
\* in an atomic scope.  The work makes a bundle of writes through the
\* transaction-scoped stores (product inserts, audit appends), stops at the
\* first write that fails, and otherwise ends as `ending` says: it returns
\* nil, returns an error, or panics.

MaxSteps == 2

Endings == {"nil", "work failed", "panic"}

WorkStep(kind, p) == [kind |-> kind, p |-> p]

WorkSteps ==
    {WorkStep("ProductRepo.Create", p) : p \in CatalogInputs}
        \cup {WorkStep("AuditRepo.Create", Product("p1", "n", "s1", 1, 1, MaxQty))}

\* fn(txPorts): the store as the work left it and how the work ended.
RECURSIVE RunWork(_, _, _, _, _)
RunWork(db, steps, i, ending, now) ==
    IF i > Len(steps) THEN [db |-> db, err |-> ending]
    ELSE IF steps[i].kind = "ProductRepo.Create"
    THEN LET c == ProductCreate(db.products, steps[i].p, FALSE) IN
         IF c.err THEN [db |-> db, err |-> "create product"]
         ELSE RunWork([db EXCEPT !.products = c.tbl], steps, i + 1, ending, now)
    ELSE LET la == LogAction(AuditTable(db), NoOverride, "WORK", "system",
                             [action |-> "work"], now, FALSE, FALSE) IN
         RunWork(AfterAmbientLog(db, la), steps, i + 1, ending, now)

WorkRequest(steps, ending) == [steps |-> steps, ending |-> ending]

\* TransactionManager.WithTx(ctx, fn): the caller gets back what the work
\* returned, and a panic of the work reaches the caller as that panic.
RunAtomic(steps, ending, now) ==
    LET r == RunWork(DB, steps, 1, ending, now) IN
    Apply("WithTx", Outcome(WithTx(DB, r), r.err, 0))

NextTx ==
    \/ /\ Len(auditLogs) < MaxLog /\ call = NoCall
       /\ \E p \in CatalogInputs, now \in Times :
              CreateProduct(p, now, NoFault) /\ Blind
    \/ /\ call = NoCall
       /\ \E steps \in SeqsUpTo(WorkSteps, MaxSteps), ending \in Endings,
             now \in Times :
              /\ RunAtomic(steps, ending, now)
              /\ Observe(WorkRequest(steps, ending), NoFault)

SpecTx == Init /\ [][NextTx]_vars

\* ------------------------------------------------- one audit service instance
\* SpecInstance: one AuditService instance is used for several appends in
\* a row, as ImportProducts uses the one it makes for a row, with and
\* without a SetPrevHash between them; the store's read of the last entry
\* or its insert may fail.

\* AuditService.SetPrevHash
SetPrevHashOn(s, hash) == [s EXCEPT !.prevHash = Override(hash)]

\* AuditService.LastHash
LastHash(s) == s.lastHash

\* An instance whose LogAction moves the override on to the hash it made.
AfterLogAction_SelfThreading(s, la) ==
    [s EXCEPT !.lastHash = la.lastHash,
              !.prevHash = IF s.prevHash.set THEN Override(la.lastHash)
                           ELSE s.prevHash]

\* What LogAction leaves in the instance: s.lastHash = log.CurrentHash,
\* assigned before the insert is attempted; s.prevHash is not assigned.
AfterLogAction(s, la) == [s EXCEPT !.lastHash = la.lastHash]

SetPrevHash(hash) ==
    /\ svc' = SetPrevHashOn(svc, hash)
    /\ last' = [op |-> "SetPrevHash", err |-> "nil", ret |-> 0]
    /\ UNCHANGED <<products, auditLogs, auditSeq, sales, saleItems, tamper,
                   procs>>

\* AuditService.LogAction on the instance svc
InstanceLogAction(action, userID, payload, now, fault) ==
    LET la == LogAction(AuditTable(DB), svc.prevHash, action, userID, payload,
                        now, Hits(fault, "GetLastLog", 1),
                        Hits(fault, "AuditCreate", 1))
    IN /\ auditLogs' = la.logs
       /\ auditSeq' = la.seq
       /\ svc' = AfterLogAction(svc, la)
       /\ last' = [op |-> "LogAction",
                   err |-> IF la.err THEN "insert" ELSE "nil", ret |-> 0]
       /\ UNCHANGED <<products, sales, saleItems, tamper, procs>>

InstancePayloads ==
    {[action |-> "create_product", product_id |-> id] : id \in ProductIDs}

InstanceFaults == FaultInputs({"GetLastLog", "AuditCreate"}, {}, 0)

\* The hashes a caller has at hand: none, the one read from the store, the
\* one the instance computed last.
HashesAtHand == {"", LastHashOrEmpty(auditLogs, FALSE), LastHash(svc)}

LogRequest(payload, now) == [payload |-> payload, now |-> now]

\* The caller stops using the instance at the first append that returns
\* an error (ImportProducts returns it and the scope ends).
NextInstance ==
    \/ /\ last.err = "nil"
       /\ \E hash \in HashesAtHand :
              SetPrevHash(hash) /\ Observe([hash |-> hash], NoFault)
    \/ /\ last.err = "nil"
       /\ \E payload \in InstancePayloads, now \in Times,
             fault \in InstanceFaults :
              /\ Len(auditLogs) <= MaxLog \/ fault.kind = "AuditCreate"
              /\ InstanceLogAction("CREATE_PRODUCT", "system", payload, now, fault)
              /\ Observe(LogRequest(payload, now), fault)

SpecInstance == Init /\ [][NextInstance]_vars

\* --------------------------------------------------- concurrent product calls
\* SpecRace: each HTTP request runs ProductService.CreateProduct,
\* UpdateProduct or DeleteProduct in a goroutine of its own, all on the one
\* productRepo and the one auditSvc made at start-up.  The pool holds one
\* connection (SetMaxOpenConns(1)), so the store executes one statement at a
\* time: a step of a goroutine is one statement.  An ambient-mode call is
\* three statements, none of them inside a transaction: the product write,
\* the SELECT of GetLastLog, the INSERT of AuditLogRepository.Create.

Goroutines == {"g1", "g2"}

RaceOps == {"CreateProduct", "UpdateProduct", "DeleteProduct"}

RaceProducts ==
    {Product("p1", "n", "s1", 1, 1, MaxQty), Product("p2", "n", "s2", 2, 1, MaxQty)}

\* A call in flight: pc is the statement it executes next, prevHash the
\* local variable of LogAction.
Goroutine(op, p, pc, prevHash, err) ==
    [op |-> op, p |-> p, pc |-> pc, prevHash |-> prevHash, err |-> err]

\* The product write of each call and the error the call returns for it.
ProductWrite(tbl, op, p) ==
    CASE op = "CreateProduct" -> ProductCreate(tbl, p, FALSE)
      [] op = "UpdateProduct" -> ProductUpdate(tbl, p, FALSE)
      [] op = "DeleteProduct" -> ProductDelete(tbl, p.id, FALSE)

\* The action name and payload each call passes to LogAction.
AuditArgs(op, p) ==
    CASE op = "CreateProduct" ->
             [action |-> "CREATE_PRODUCT",
              payload |-> [product_id |-> p.id, action |-> "create_product",
                           sku |-> p.sku, name |-> p.name]]
      [] op = "UpdateProduct" ->
             [action |-> "UPDATE_PRODUCT",
              payload |-> [product_id |-> p.id, action |-> "update_product",
                           sku |-> p.sku]]
      [] op = "DeleteProduct" ->
             [action |-> "DELETE_PRODUCT",
              payload |-> [product_id |-> p.id, action |-> "delete_product"]]

\* A request arrives: its handler starts in a new goroutine.
Invoke(g, op, p) ==
    /\ procs' = procs @@ (g :> Goroutine(op, p, "write", "", "nil"))
    /\ UNCHANGED <<products, auditLogs, auditSeq, sales, saleItems, last, call,
                   tamper, svc>>

\* s.productRepo.Create / Update / Delete; an error ends the call.
WriteStatement(g) ==
    LET w == ProductWrite(products, procs[g].op, procs[g].p) IN
    /\ products' = w.tbl
    /\ procs' = [procs EXCEPT ![g].pc = IF w.err THEN "done" ELSE "read",
                              ![g].err = IF w.err THEN "product write" ELSE "nil"]
    /\ UNCHANGED <<auditLogs, auditSeq, sales, saleItems, last, call, tamper, svc>>

\* LogAction, ambient mode: lastLog, err := s.auditRepo.GetLastLog(ctx)
ReadStatement(g) ==
    /\ procs' = [procs EXCEPT ![g].pc = "append",
                              ![g].prevHash = LastHashOrEmpty(auditLogs, FALSE)]
    /\ UNCHANGED <<products, auditLogs, auditSeq, sales, saleItems, last, call,
                   tamper, svc>>

\* The rest of LogAction with the prevHash read before: the hash, the
\* assignment of s.lastHash, the INSERT.  The shared instance's lastHash
\* is written by every goroutine without a lock; no product call reads it.
AppendStatement(g, now) ==
    LET a == AuditArgs(procs[g].op, procs[g].p)
        la == LogAction(AuditTable(DB), Override(procs[g].prevHash), a.action,
                        "system", a.payload, now, FALSE, FALSE)
    IN /\ auditLogs' = la.logs
       /\ auditSeq' = la.seq
       /\ svc' = AfterLogAction(svc, la)
       /\ procs' = [procs EXCEPT ![g].pc = "done"]
       /\ UNCHANGED <<products, sales, saleItems, last, call, tamper>>

NextRace ==
    \/ \E g \in Goroutines \ DOMAIN procs, op \in RaceOps, p \in RaceProducts :
           Invoke(g, op, p)
    \/ \E g \in DOMAIN procs : procs[g].pc = "write" /\ WriteStatement(g)
    \/ \E g \in DOMAIN procs : procs[g].pc = "read" /\ ReadStatement(g)
    \/ \E g \in DOMAIN procs, now \in Times :
           procs[g].pc = "append" /\ AppendStatement(g, now)

SpecRace == Init /\ [][NextRace]_vars

\* ------------------------------------------------- out-of-band tampering
\* SpecTamper: a chain of up to MaxChain entries is built by service calls,
\* then one row of audit_logs is modified or removed behind the service's
\* back (no service call does that), then the chain is verified.

TamperValues(field) ==
    CASE field = "action" -> {"CREATE_PRODUCT", "TAMPERED"}
      [] field = "userID" -> {"system", "mallory"}
      [] field = "timestamp" -> Times \cup {2}
      [] field = "payload" ->
             {"{}", "{\"action\":\"delete_product\",\"product_id\":\"p1\"}"}
      [] field = "prevHash" ->
             {[String |-> "", Valid |-> FALSE], [String |-> "", Valid |-> TRUE],
              [String |-> "sha256(forged)", Valid |-> TRUE]}
      [] field = "currentHash" -> {"sha256(forged)"}

TamperFields ==
    {"action", "userID", "timestamp", "payload", "prevHash", "currentHash"}

TamperField(i, field, v) ==
    /\ tamper.kind = "none"
    /\ i \in DOMAIN auditLogs
    /\ auditLogs[i][field] # v
    /\ auditLogs' = [auditLogs EXCEPT ![i][field] = v]
    /\ tamper' = [kind |-> "field", field |-> field, idx |-> i,
                  preLen |-> Len(auditLogs), preValid |-> VerifyChain(auditLogs)]
    /\ last' = [op |-> "Tamper", err |-> "nil", ret |-> 0]
    /\ UNCHANGED <<products, auditSeq, sales, saleItems, call, svc, procs>>

DeleteEntry(i) ==
    /\ tamper.kind = "none"
    /\ i \in DOMAIN auditLogs
    /\ auditLogs' = SubSeq(auditLogs, 1, i - 1)
                        \o SubSeq(auditLogs, i + 1, Len(auditLogs))
    /\ tamper' = [kind |-> "delete", field |-> "", idx |-> i,
                  preLen |-> Len(auditLogs), preValid |-> VerifyChain(auditLogs)]
    /\ last' = [op |-> "Tamper", err |-> "nil", ret |-> 0]
    /\ UNCHANGED <<products, auditSeq, sales, saleItems, call, svc, procs>>

ChainProducts ==
    {Product("p1", "n", "s1", 1, 1, MaxQty), Product("p2", "n", "s2", 1, 1, MaxQty)}

ChainRows == {<<"n", "s1", "1">>, <<"n", "s2", "1">>}

Building == tamper.kind = "none" /\ Len(auditLogs) < MaxChain

NextTamper ==
    \/ /\ Building
       /\ \E p \in ChainProducts, now \in Times,
             fault \in {NoFault, Fault("GetLastLog", 1)} :
              CreateProduct(p, now, fault) /\ Blind
    \/ /\ Building
       /\ \E p \in ChainProducts, now \in Times :
              UpdateProduct(p, now, NoFault) /\ Blind
    \/ /\ Building
       /\ \E id \in {"p1"}, now \in Times :
              DeleteProduct(id, now, NoFault) /\ Blind
    \/ /\ Building
       /\ \E items \in {<<[productID |-> "p1", quantity |-> 1]>>}, now \in Times,
             saleID \in FreshSaleIDs :
              ProcessSale(saleID, items, now, NoFault) /\ Blind
    \/ /\ Building
       /\ \E rows \in SeqsUpTo(ChainRows, MaxRows),
             ids \in SeqsUpTo(FreshProductIDs, MaxRows), now \in Times :
              /\ Len(auditLogs) + Len(rows) <= MaxChain
              /\ Len(ids) = Len(rows) /\ Distinct(ids)
              /\ ImportProducts(NoCategory, <<"name", "sku", "base_price">>, rows,
                                ids, now, NoFault)
              /\ Blind
    \/ \E i \in 1 .. MaxChain, field \in TamperFields :
           \E v \in TamperValues(field) : TamperField(i, field, v)
    \/ \E i \in 1 .. MaxChain : DeleteEntry(i)
    \/ VerifyAuditChain(FALSE)

SpecTamper == Init /\ [][NextTamper]_vars

Verified == last.op = "VerifyAuditChain" /\ last.err = "nil"

\* ------------------------------------------------------------ audit chain

ChainLinked(rows) ==
    \A i \in DOMAIN rows :
        rows[i].prevHash.String =
            IF i = 1 THEN "" ELSE rows[i - 1].currentHash

\* C1: after any sequence of completed service calls the stored audit
\* entries, in ascending id order, form a linked chain: the first entry's
\* prevHash is empty and every later entry's prevHash is its predecessor's
\* currentHash.
C1_ChainLinked == ChainLinked(auditLogs)

\* C2: the currentHash stored with every entry is the hash of that entry's
\* stored payload text, stored timestamp and stored prevHash, so that the
\* verifier's recomputation from the stored columns reproduces the value
\* the service computed when it appended the entry.  The rows are those
\* the service wrote: no out-of-band modification has been made.
C2_StoredHashReproducible ==
    tamper.kind = "none" =>
        \A i \in DOMAIN auditLogs :
            auditLogs[i].currentHash
                = RepoCalculateHash(auditLogs[i].payload, auditLogs[i].timestamp,
                                    auditLogs[i].prevHash.String)

\* A product entry, a sale entry written inside the atomic scope and a
\* deletion entry, each but the first stored with a previous hash.
C2_Witness ==
    /\ tamper.kind = "none"
    /\ Len(auditLogs) = 3
    /\ auditLogs[2].action = "SALE_PROCESSED" /\ auditLogs[2].prevHash.Valid
    /\ auditLogs[3].action = "DELETE_PRODUCT" /\ auditLogs[3].prevHash.Valid

\* C3: VerifyChain returns true on the empty log and on every chain that
\* the service calls alone (no tampering) have produced.
C3_VerifyTrueUntampered ==
    (last.op = "VerifyAuditChain" /\ last.err = "nil") => last.ret = TRUE

\* C4: on a valid chain, replacing the stored payload of any one entry by
\* a different payload makes VerifyChain return false.
C4_PayloadTamperDetected ==
    (tamper.kind = "field" /\ tamper.field = "payload" /\ tamper.preValid
        /\ Verified) => last.ret = FALSE

C4_Witness ==
    /\ tamper.kind = "field" /\ tamper.field = "payload" /\ tamper.preValid
    /\ tamper.preLen = 3 /\ tamper.idx = 3
    /\ Verified /\ last.ret = FALSE

\* C5: on a valid chain of three or more entries, removing an entry that
\* is neither the first nor the last makes VerifyChain return false, the
\* successor's stored prevHash differing from the expected previous hash.
C5_MiddleDeletionDetected ==
    (tamper.kind = "delete" /\ tamper.preValid /\ tamper.preLen >= 3
        /\ 1 < tamper.idx /\ tamper.idx < tamper.preLen)
    => /\ auditLogs[tamper.idx].prevHash.Valid
       /\ auditLogs[tamper.idx].prevHash.String
              # auditLogs[tamper.idx - 1].currentHash
       /\ Verified => last.ret = FALSE

C5_Witness ==
    /\ tamper.kind = "delete" /\ tamper.preValid /\ tamper.preLen = 3
    /\ tamper.idx = 2
    /\ Verified /\ last.ret = FALSE

\* C6: on a valid chain, removing any one entry, whatever its position,
\* makes VerifyChain return false.
C6_AnyDeletionDetected ==
    (tamper.kind = "delete" /\ tamper.preValid /\ Verified) => last.ret = FALSE

\* C7: on a valid chain, changing any one stored field of any one entry
\* (action, user id, timestamp, payload, prevHash or currentHash) to a
\* different value makes VerifyChain return false.
C7_AnyFieldTamperDetected ==
    (tamper.kind = "field" /\ tamper.preValid /\ Verified) => last.ret = FALSE

\* ------------------------------------------------------------- checkout
\* The claims below read a ProcessSale step of SpecSale: call' is the
\* request, the unprimed variables the committed state before the call,
\* the primed ones the committed state after it.

SaleStep == last'.op = "ProcessSale"

StoreUnchanged == UNCHANGED <<products, auditLogs, auditSeq, sales, saleItems>>

\* Item it asks for more than the stock tbl holds of its product.
ExceedsStock(tbl, it) ==
    it.productID \in DOMAIN tbl /\ it.quantity > tbl[it.productID].quantity

\* Total quantity the items from i on request of product id.
RECURSIVE RequestedFrom(_, _, _)
RequestedFrom(items, i, id) ==
    IF i > Len(items) THEN 0
    ELSE (IF items[i].productID = id THEN items[i].quantity ELSE 0)
             + RequestedFrom(items, i + 1, id)

\* Sum over the items from i on of base price in tbl times quantity.
RECURSIVE PricedFrom(_, _, _)
PricedFrom(tbl, items, i) ==
    IF i > Len(items) THEN 0
    ELSE tbl[items[i].productID].basePrice * items[i].quantity
             + PricedFrom(tbl, items, i + 1)

\* C8 as stated: a ProcessSale with an item whose requested quantity
\* exceeds the product's on-hand quantity returns ErrInsufficientStock and
\* leaves stock, sales, sale items and audit entries as they were.
C8_InsufficientStockError ==
    [][(SaleStep /\ \E i \in DOMAIN call'.arg : ExceedsStock(products, call'.arg[i]))
       => (last'.err = "insufficient stock" /\ StoreUnchanged)]_vars

\* No storage call fails and no item is rejected before the stock check.
OnlyStockCanFail(tbl, items, fault) ==
    /\ fault.kind \in {"none", "GetLastLog"}
    /\ \A i \in DOMAIN items :
           items[i].quantity > 0 /\ items[i].productID \in DOMAIN tbl

\* C8 amended: a ProcessSale with an item whose requested quantity exceeds
\* the product's on-hand quantity returns an error and leaves stock, sales,
\* sale items and audit entries as they were; the error is
\* ErrInsufficientStock when every item has a positive quantity and an
\* existing product and no storage call fails.
C8_InsufficientStockRejected ==
    [][(SaleStep /\ \E i \in DOMAIN call'.arg : ExceedsStock(products, call'.arg[i]))
       => /\ last'.err # "nil"
          /\ StoreUnchanged
          /\ OnlyStockCanFail(products, call'.arg, call'.fault)
                 => last'.err = "insufficient stock"]_vars

\* The second item exceeds the stock after the first item was accepted.
C8_Witness ==
    /\ last.op = "ProcessSale" /\ last.err = "insufficient stock"
    /\ Len(call.arg) = 2
    /\ call.arg[1].productID # call.arg[2].productID
    /\ ExceedsStock(products, call.arg[2])
    /\ products[call.arg[1].productID].quantity = MaxQty
    /\ sales = {} /\ saleItems = <<>>

\* One of the failures C9 lists is set up for the request.
FailureSetUp(tbl, items, fault) ==
    \/ \E k \in DOMAIN items :
           \/ items[k].quantity <= 0
           \/ items[k].productID \notin DOMAIN tbl
           \/ ExceedsStock(tbl, items[k])
    \/ fault.kind \in {"GetByID", "Update", "CreateSaleItem"}
    \/ fault.kind \in {"CreateSale", "AuditCreate"}

\* C9: a ProcessSale in which any step fails for any item (non-positive
\* quantity, product not found, insufficient stock, failed product update,
\* failed sale-item or sale insert, failed audit append) returns an error,
\* and after every ProcessSale that returns an error the committed state
\* equals the state before the call.
C9_AllOrNothing ==
    [][SaleStep
       => /\ FailureSetUp(products, call'.arg, call'.fault) => last'.err # "nil"
          /\ last'.err # "nil" => StoreUnchanged]_vars

\* The audit append fails after two items and the sale were written.
C9_Witness ==
    /\ last.op = "ProcessSale" /\ last.err = "audit log"
    /\ call.fault.kind = "AuditCreate"
    /\ Len(call.arg) = 2
    /\ \A id \in DOMAIN products : products[id].quantity = MaxQty
    /\ sales = {} /\ saleItems = <<>> /\ Len(auditLogs) = Cardinality(DOMAIN products)

\* C10: a ProcessSale that succeeds returns the sum over its items of the
\* product's base price times the requested quantity, decreases each
\* product's stock by the total quantity requested for it (the same
\* product may appear in several items), and changes no other stock.
C10_TotalAndStock ==
    [][(SaleStep /\ last'.err = "nil")
       => LET items == call'.arg
          IN /\ \A i \in DOMAIN items : items[i].productID \in DOMAIN products
             /\ last'.ret = PricedFrom(products, items, 1)
             /\ DOMAIN products' = DOMAIN products
             /\ \A id \in DOMAIN products :
                    products'[id] = [products[id] EXCEPT
                        !.quantity = @ - RequestedFrom(items, 1, id)]]_vars

\* A sale of the same product in two items, next to an untouched product.
C10_Witness ==
    /\ last.op = "ProcessSale" /\ last.err = "nil"
    /\ Len(call.arg) = 2
    /\ call.arg[1].productID = "p2" /\ call.arg[2].productID = "p2"
    /\ products["p2"].quantity = 0
    /\ "p1" \in DOMAIN products /\ products["p1"].quantity = MaxQty
    /\ last.ret = 2 * MaxQty

\* C11: every ProcessSale that commits appends exactly one audit entry,
\* whatever the number of items; its action is SALE_PROCESSED and its
\* prevHash is the currentHash of the last entry committed before the
\* call (the empty string when the log was empty).
C11_OneChainedSaleEntry ==
    [][(SaleStep /\ last'.err = "nil")
       => /\ Len(auditLogs') = Len(auditLogs) + 1
          /\ SubSeq(auditLogs', 1, Len(auditLogs)) = auditLogs
          /\ auditLogs'[Len(auditLogs')].action = "SALE_PROCESSED"
          /\ auditLogs'[Len(auditLogs')].prevHash.String
                 = (IF Len(auditLogs) = 0 THEN ""
                    ELSE auditLogs[Len(auditLogs)].currentHash)]_vars

\* --------------------------------------------------------------- catalogue
\* The claims below read a step of SpecImport; for an ImportProducts step
\* call'.arg is the request (category, headers, rows) and the products of
\* its rows have the ids ImportIDs.

ImportStep == last'.op = "ImportProducts"

SkuUnique(tbl) ==
    \A a, b \in DOMAIN tbl : a # b => tbl[a].sku # tbl[b].sku

HasRequiredColumns(headers) ==
    \A c \in {"name", "sku", "base_price"} : \E i \in DOMAIN headers : headers[i] = c

\* The header row has the mandatory columns and every row its length.
WellFormed(req) ==
    /\ HasRequiredColumns(req.headers)
    /\ \A k \in DOMAIN req.rows : Len(req.rows[k]) = Len(req.headers)

\* The text of row k of the request in column c.
Cell(req, k, c) == req.rows[k][ColIndex(req.headers)[c]]

\* A row repeats the sku of a product of tbl or of an earlier row.
SkuConflict(tbl, req) ==
    /\ WellFormed(req)
    /\ \E k \in DOMAIN req.rows :
           \/ \E j \in DOMAIN tbl : tbl[j].sku = Cell(req, k, "sku")
           \/ \E h \in 1 .. (k - 1) : Cell(req, h, "sku") = Cell(req, k, "sku")

\* C13: no two products share a sku in any committed state; a
\* CreateProduct commits a product only when no product had its sku, and
\* otherwise fails and changes nothing; an ImportProducts with a row whose
\* sku is that of an existing product or of an earlier row fails and
\* leaves the store as it was.
C13_SkuUnique ==
    [][/\ SkuUnique(products')
       /\ last'.op = "CreateProduct"
              => /\ last'.err = "nil"
                     => \A id \in DOMAIN products' \ DOMAIN products :
                            \A j \in DOMAIN products :
                                products[j].sku # products'[id].sku
                 /\ last'.err # "nil" => StoreUnchanged
       /\ (ImportStep /\ SkuConflict(products, call'.arg))
              => (last'.err # "nil" /\ StoreUnchanged)]_vars

\* The second row repeats the sku of the first, which was inserted.
C13_Witness ==
    /\ last.op = "ImportProducts" /\ last.err = "insert product"
    /\ call.fault.kind = "none"
    /\ Len(call.arg.rows) = 2 /\ call.arg.rows[1] = call.arg.rows[2]
    /\ products = EmptyTable /\ auditLogs = <<>>

\* The errors ImportProducts returns before it opens the atomic scope.
PreScopeErrors ==
    {"category lookup", "read CSV header", "missing required CSV column"}

\* C15: an ImportProducts whose header row lacks one of the mandatory
\* columns returns an error raised before the atomic scope is opened and
\* before any data row is processed, returns count 0, and leaves products,
\* audit entries and every other table as they were.
C15_MissingColumnRejected ==
    [][(ImportStep /\ ~HasRequiredColumns(call'.arg.headers))
       => /\ last'.err \in PreScopeErrors
          /\ last'.ret = 0
          /\ StoreUnchanged]_vars

\* A header row without sku, followed by two data rows, on a catalogue.
C15_Witness ==
    /\ last.op = "ImportProducts" /\ last.err = "missing required CSV column"
    /\ call.arg.headers = <<"name", "base_price">>
    /\ Len(call.arg.rows) = 2
    /\ call.fault.kind = "none"
    /\ products # EmptyTable

\* C16: an ImportProducts of N >= 1 rows that succeeds returns N, creates
\* exactly the N products of its rows, appends exactly N audit entries in
\* row order, the first chained to the last entry committed before the
\* call (empty prevHash if none) and each next one to its predecessor, and
\* leaves a log that verifies.
C16_ImportChained ==
    [][(ImportStep /\ last'.err = "nil" /\ Len(call'.arg.rows) >= 1)
       => LET n == Len(call'.arg.rows)
              ids == ImportIDs(n)
              old == Len(auditLogs)
          IN /\ last'.ret = n
             /\ DOMAIN products' = DOMAIN products \cup {ids[k] : k \in 1 .. n}
             /\ \A id \in DOMAIN products : products'[id] = products[id]
             /\ Len(auditLogs') = old + n
             /\ SubSeq(auditLogs', 1, old) = auditLogs
             /\ \A k \in 1 .. n :
                    /\ auditLogs'[old + k].action = "CREATE_PRODUCT"
                    /\ auditLogs'[old + k].prevHash.String
                           = (IF old + k = 1 THEN ""
                              ELSE auditLogs'[old + k - 1].currentHash)
             /\ VerifyChain(auditLogs')]_vars

\* One of the row-level failures C17 lists is set up for the request.
ImportFailureSetUp(req, fault) ==
    \/ /\ HasRequiredColumns(req.headers)
       /\ \E k \in DOMAIN req.rows : Len(req.rows[k]) # Len(req.headers)
    \/ /\ WellFormed(req)
       /\ \E k \in DOMAIN req.rows :
              \/ Cell(req, k, "name") = ""
              \/ Cell(req, k, "sku") = ""
              \/ ParseFloat(Cell(req, k, "base_price")).err
              \/ /\ req.category.id # ""
                 /\ \E a \in DOMAIN req.category.attributeDefinitions :
                        /\ req.category.attributeDefinitions[a].required
                        /\ \A i \in DOMAIN req.headers :
                               req.headers[i]
                                   # req.category.attributeDefinitions[a].key
    \/ /\ WellFormed(req)
       /\ fault.kind \in {"Create", "AuditCreate"}
       /\ fault.at <= Len(req.rows)

\* C17: an ImportProducts in which the processing of any data row fails
\* (column count, empty name or sku, malformed price, blueprint
\* validation, product insert, audit append) returns an error; every
\* ImportProducts that returns an error returns count 0 and leaves the
\* committed state as it was before the call.
C17_ImportAllOrNothing ==
    [][ImportStep
       => /\ ImportFailureSetUp(call'.arg, call'.fault) => last'.err # "nil"
          /\ last'.err # "nil" => (last'.ret = 0 /\ StoreUnchanged)]_vars

\* The audit append of the second row fails after the first row and the
\* second product were written.
C17_Witness ==
    /\ last.op = "ImportProducts" /\ last.err = "audit log"
    /\ call.fault = Fault("AuditCreate", 2)
    /\ Len(call.arg.rows) = 2
    /\ call.arg.rows[1] # call.arg.rows[2]
    /\ products = EmptyTable /\ auditLogs = <<>> /\ auditSeq = 0

\* C18: the products of an ImportProducts that succeeds have the quantity
\* and cost price of their row's quantity and cost_price columns when the
\* header row has these columns, and quantity 0 and cost price 0 when it
\* has not.
C18_ImportQuantityAndCost ==
    [][(ImportStep /\ last'.err = "nil")
       => LET req == call'.arg
              ids == ImportIDs(Len(req.rows))
              has(c) == \E i \in DOMAIN req.headers : req.headers[i] = c
          IN \A k \in DOMAIN req.rows :
                 IF has("quantity") /\ has("cost_price")
                 THEN /\ products'[ids[k]].quantity
                             = ParseFloat(Cell(req, k, "quantity")).v
                      /\ products'[ids[k]].costPrice
                             = ParseFloat(Cell(req, k, "cost_price")).v
                 ELSE /\ products'[ids[k]].quantity = 0
                      /\ products'[ids[k]].costPrice = 0]_vars

\* ---------------------------------------------------------------- C12
\* C12: in every state the calls leave behind, every product's quantity is
\* zero or more.
C12_QuantityNonNegative ==
    \A id \in DOMAIN products : products[id].quantity >= 0

\* ---------------------------------------------------------------- C14
ProductStep == last'.op \in {"CreateProduct", "UpdateProduct", "DeleteProduct"}

\* C14: the sale items a ProcessSale adds carry the base price and the
\* cost price their product had when the sale began, and no call of any
\* kind removes or changes a Sale or SaleItem that already exists.
C14_SnapshotImmutable ==
    [][/\ sales \subseteq sales'
       /\ Len(saleItems') >= Len(saleItems)
       /\ SubSeq(saleItems', 1, Len(saleItems)) = saleItems
       /\ ~SaleStep => saleItems' = saleItems /\ sales' = sales
       /\ SaleStep =>
              \A k \in (Len(saleItems) + 1) .. Len(saleItems') :
                  LET it == saleItems'[k]
                  IN /\ it.productID \in DOMAIN products
                     /\ it.unitPrice = products[it.productID].basePrice
                     /\ it.costPrice = products[it.productID].costPrice]_vars

\* A sale item of p2 (base price 2, cost price 1) outlives a later sale of
\* p1 at a new price, while an older item of p1 keeps the old price.
C14_Witness ==
    /\ Len(saleItems) >= 2
    /\ \E j, k \in DOMAIN saleItems :
           /\ j < k
           /\ saleItems[j].productID = "p1" /\ saleItems[k].productID = "p1"
           /\ saleItems[j].unitPrice # saleItems[k].unitPrice
    /\ \E k \in DOMAIN saleItems :
           saleItems[k].productID = "p2" /\ saleItems[k].unitPrice = 2
                                         /\ saleItems[k].costPrice = 1

\* ---------------------------------------------------------------- C19
\* What the product table becomes when the repository write of a product
\* call succeeds.
Mutation(op, tbl, arg) ==
    IF op = "CreateProduct" THEN ProductCreate(tbl, arg, FALSE)
    ELSE IF op = "UpdateProduct" THEN ProductUpdate(tbl, arg, FALSE)
    ELSE ProductDelete(tbl, arg.id, FALSE)

\* C19: when the audit append of a CreateProduct, UpdateProduct or
\* DeleteProduct fails while its product write succeeds, the call returns
\* no error and the product write stays in the store.
C19_AuditFailureNonFatal ==
    [][(ProductStep /\ call'.fault.kind = "AuditCreate")
       => LET m == Mutation(last'.op, products, call'.arg)
          IN IF m.err
             THEN last'.err # "nil" /\ StoreUnchanged
             ELSE /\ last'.err = "nil"
                  /\ products' = m.tbl
                  /\ auditLogs' = auditLogs]_vars

\* A price change of p1 is in the store although its audit append failed.
C19_Witness ==
    /\ last.op = "UpdateProduct" /\ last.err = "nil"
    /\ call.fault.kind = "AuditCreate"
    /\ call.arg.id \in DOMAIN products
    /\ products[call.arg.id] = call.arg
    /\ call.arg.basePrice = 2
    /\ \A k \in DOMAIN auditLogs : auditLogs[k].action # "UPDATE_PRODUCT"

\* ---------------------------------------------------------------- C20
\* The audit action a call appends.
AuditAction(op) ==
    IF op = "CreateProduct" THEN "CREATE_PRODUCT"
    ELSE IF op = "UpdateProduct" THEN "UPDATE_PRODUCT"
    ELSE IF op = "DeleteProduct" THEN "DELETE_PRODUCT"
    ELSE IF op = "ImportProducts" THEN "CREATE_PRODUCT"
    ELSE "SALE_PROCESSED"

\* C20 as stated: every call that returns no error and changes the
\* products or the sales appends an audit entry.
C20_EveryMutationAudited ==
    [][(last'.err = "nil" /\ (products' # products \/ sales' # sales))
       => Len(auditLogs') > Len(auditLogs)]_vars

\* C20: every sale and every imported row that is committed has its own
\* audit entry, and so has every product creation, update and deletion
\* whose audit append did not fail.
C20_MutationAuditedUnlessAppendFailed ==
    [][(last'.err = "nil" /\ (products' # products \/ sales' # sales))
       => LET n == IF ImportStep THEN last'.ret ELSE 1
          IN \/ ProductStep /\ call'.fault.kind = "AuditCreate"
             \/ /\ Len(auditLogs') = Len(auditLogs) + n
                /\ SubSeq(auditLogs', 1, Len(auditLogs)) = auditLogs
                /\ \A k \in (Len(auditLogs) + 1) .. Len(auditLogs') :
                       auditLogs'[k].action = AuditAction(last'.op)]_vars

\* A sale and an imported row are in the store, each with its audit
\* entry, beside the sold product, whose creation left no entry because
\* its audit append failed.
C20_Witness ==
    /\ sales # {}
    /\ "i1" \in DOMAIN products
    /\ \E k \in DOMAIN saleItems : saleItems[k].productID \in DOMAIN products
    /\ Len(auditLogs) = 2
    /\ \E k \in DOMAIN auditLogs : auditLogs[k].action = "SALE_PROCESSED"
    /\ \E k \in DOMAIN auditLogs :
           /\ auditLogs[k].action = "CREATE_PRODUCT"
           /\ auditLogs[k].payload = Marshal([product_id |-> "i1",
                                              action |-> "import_product",
                                              sku |-> "s3", name |-> "n"]).bytes

\* ---------------------------------------------------------------- C30
\* C30: an UpdateProduct or DeleteProduct whose product id is not in the
\* store, and whose storage calls all succeed, returns no error, leaves the
\* products as they were and appends one UPDATE_PRODUCT / DELETE_PRODUCT
\* entry that names the id.
C30_MissingProductStillAudited ==
    [][(/\ last'.op \in {"UpdateProduct", "DeleteProduct"}
        /\ call'.fault.kind = "none"
        /\ call'.arg.id \notin DOMAIN products)
       => /\ last'.err = "nil"
          /\ products' = products
          /\ Len(auditLogs') = Len(auditLogs) + 1
          /\ SubSeq(auditLogs', 1, Len(auditLogs)) = auditLogs
          /\ LET e == auditLogs'[Len(auditLogs')]
             IN /\ e.action = AuditAction(last'.op)
                /\ e.payload =
                     IF last'.op = "DeleteProduct"
                     THEN Marshal([product_id |-> call'.arg.id,
                                   action |-> "delete_product"]).bytes
                     ELSE Marshal([product_id |-> call'.arg.id,
                                   action |-> "update_product",
                                   sku |-> call'.arg.sku]).bytes]_vars

\* The log holds a DELETE_PRODUCT entry for p1 although no product was ever
\* stored.
C30_Witness ==
    /\ last.op = "DeleteProduct" /\ last.err = "nil"
    /\ call.fault.kind = "none"
    /\ products = EmptyTable
    /\ Len(auditLogs) = 1
    /\ auditLogs[1].action = "DELETE_PRODUCT"
    /\ auditLogs[1].payload = Marshal([product_id |-> call.arg.id,
                                       action |-> "delete_product"]).bytes

\* ---------------------------------------------------------------- C28
\* The recorded call, made on the store as it is, with no failing read.
Unfaulted(req) ==
    IF req.op = "CreateProduct" THEN CreateProductCall(DB, req.arg, 1, NoFault)
    ELSE IF req.op = "UpdateProduct"
    THEN UpdateProductCall(DB, req.arg, 1, NoFault)
    ELSE IF req.op = "DeleteProduct"
    THEN DeleteProductCall(DB, req.arg.id, 1, NoFault)
    ELSE IF req.op = "ProcessSale"
    THEN ProcessSaleCall(DB, req.arg.saleID, req.arg.items, 1, NoFault)
    ELSE ImportProductsCall(DB, req.arg.category, req.arg.headers,
                            req.arg.rows, ImportIDs(Len(req.arg.rows)), 1,
                            NoFault)

\* C28: a call whose read of the last audit entry fails while the log is
\* not empty returns what it returns when the read succeeds, with the same
\* products, sales and number of audit entries; when it succeeds, the
\* first entry it appends has an empty prevHash and the log it leaves
\* behind does not verify.
C28_ReadFailureBreaksChain ==
    [][(call' # NoCall /\ call'.fault.kind = "GetLastLog" /\ Len(auditLogs) > 0)
       => LET ref == Unfaulted(call'.arg)
          IN /\ last'.err = ref.err
             /\ products' = ref.db.products
             /\ sales' = ref.db.sales
             /\ saleItems' = ref.db.saleItems
             /\ Len(auditLogs') = Len(ref.db.logs)
             /\ last'.err = "nil" =>
                    /\ Len(auditLogs') > Len(auditLogs)
                    /\ auditLogs'[Len(auditLogs) + 1].prevHash = NullString("")
                    /\ ~VerifyChain(auditLogs')]_vars

\* A two-row import succeeded on a non-empty log although its read of the
\* last entry failed.
C28_Witness ==
    /\ call # NoCall /\ call.fault.kind = "GetLastLog"
    /\ last.op = "ImportProducts" /\ last.err = "nil" /\ last.ret = 2
    /\ Len(auditLogs) = 3
    /\ auditLogs[2].prevHash = NullString("")
    /\ auditLogs[3].prevHash = NullString(auditLogs[2].currentHash)
    /\ ~VerifyChain(auditLogs)

\* ---------------------------------------------------------------- C26
\* C26: the entries of an ImportProducts that succeeds, and whose one read
\* of the last audit entry succeeds, form a chain of their own: the first
\* has the current hash of the last entry committed before the import as
\* its prevHash ("" on an empty log), every later one the current hash of
\* the entry of the row before it, and every stored hash is the hash of
\* its payload, timestamp and that prevHash.
C26_ImportThreadsHash ==
    [][(/\ call' # NoCall /\ call'.arg.op = "ImportProducts"
        /\ call'.fault.kind = "none" /\ last'.err = "nil")
       => LET n == Len(call'.arg.arg.rows)
              old == Len(auditLogs)
              seed == IF old = 0 THEN "" ELSE auditLogs[old].currentHash
          IN /\ Len(auditLogs') = old + n
             /\ \A k \in 1 .. n :
                    LET e == auditLogs'[old + k]
                        prev == IF k = 1 THEN seed
                                ELSE auditLogs'[old + k - 1].currentHash
                    IN /\ e.prevHash = NullString(prev)
                       /\ e.currentHash
                              = RepoCalculateHash(e.payload, e.timestamp, prev)
             /\ \A j, k \in 1 .. n :
                    j # k => auditLogs'[old + j].prevHash
                                 # auditLogs'[old + k].prevHash]_vars

\* Two rows were imported on a log that already held an entry.
C26_Witness ==
    /\ call # NoCall /\ call.arg.op = "ImportProducts"
    /\ call.fault.kind = "none"
    /\ last.err = "nil" /\ last.ret = 2
    /\ Len(auditLogs) = 3
    /\ auditLogs[2].prevHash = NullString(auditLogs[1].currentHash)
    /\ auditLogs[3].prevHash = NullString(auditLogs[2].currentHash)

\* ---------------------------------------------------------------- C25
\* The previous hash entry k of the log is expected to hold.
ExpectedPrevHash(k) == IF k = 1 THEN "" ELSE auditLogs[k - 1].currentHash

\* C25: VerifyAuditChain returns false whenever the log has an entry whose
\* stored prevHash (absent counting as empty) differs from the current
\* hash of the entry before it (empty for the first entry).
C25_PrevHashMismatchRejected ==
    (Verified /\ \E k \in DOMAIN auditLogs :
                     auditLogs[k].prevHash.String # ExpectedPrevHash(k))
        => last.ret = FALSE

\* ---------------------------------------------------------------- C27
\* No stored audit entry is changed or removed by the step.
AppendOnly == SubSeq(auditLogs', 1, Len(auditLogs)) = auditLogs

\* The ids of the entries the step appends rise, starting above from.
NewIdsAbove(from) ==
    \A k \in (Len(auditLogs) + 1) .. Len(auditLogs') :
        auditLogs'[k].id > (IF k = Len(auditLogs) + 1 THEN from
                            ELSE auditLogs'[k - 1].id)

\* The highest id the store handed out inside the atomic scope of the
\* recorded import, whether or not the scope committed.
HighestIdInScope(req, fault) ==
    ImportTx(DB, req.category, req.headers, req.rows,
             ImportIDs(Len(req.rows)), 1, fault).db.seq

\* The recorded import got as far as opening its atomic scope.
ScopeOpened(req) ==
    /\ last'.err \notin PreScopeErrors \cup {"read CSV row"}
    /\ Len(req.rows) > 0

ValidateStep == last'.op = "ValidateProperties"

\* The value satisfies the type rule of the attribute.
TypeRule(attr, val) ==
    CASE attr.type = "string" -> val.kind = "string"
      [] attr.type = "boolean" -> val.kind = "bool"
      [] attr.type = "number" ->
             \/ val.kind \in {"float64", "float32", "int", "int32", "int64"}
             \/ val.kind = "string" /\ ~ParseFloat(val.v).err
      [] attr.type = "select" ->
             /\ val.kind = "string"
             /\ \/ attr.options = <<>>
                \/ \E i \in DOMAIN attr.options : attr.options[i] = val.v
      [] OTHER -> TRUE

\* The attribute is required and absent, or present with a value that
\* breaks its type rule.
Violated(attr, properties) ==
    IF attr.key \in DOMAIN properties
    THEN ~TypeRule(attr, properties[attr.key])
    ELSE attr.required

\* C23: ValidateProperties returns no error for no category; for a
\* category it returns an error exactly when some attribute definition is
\* violated (required and absent, or present with a value against its type
\* rule), and the error names the first violated definition in definition
\* order: "missing required property" when that one is absent, a type
\* error otherwise.
C23_ValidateProperties ==
    [][ValidateStep
       => LET category == call'.arg.category
              properties == call'.arg.properties
              defs == category.attributeDefinitions
              bad == {i \in DOMAIN defs : Violated(defs[i], properties)}
          IN IF category = NoCategory \/ bad = {}
             THEN last'.err = "nil"
             ELSE LET first == CHOOSE i \in bad : \A j \in bad : i <= j
                      key == defs[first].key
                  IN IF key \in DOMAIN properties
                     THEN last'.err \in
                            {"property " \o key \o " must be a string",
                             "property " \o key \o " must be a number",
                             "property " \o key \o " must be a boolean",
                             "property " \o key \o " must be a string for select type",
                             "property " \o key \o " is not in allowed options"}
                     ELSE last'.err = "missing required property " \o key]_vars

\* A blueprint of two definitions is checked against a map in which the
\* first attribute is a numeric text and the second, a required number, is
\* not numeric.
C23_Witness ==
    /\ last.op = "ValidateProperties"
    /\ last.err = "property b must be a number"
    /\ Len(call.arg.category.attributeDefinitions) = 2
    /\ call.arg.category.attributeDefinitions[1]
           = AttributeDefinition("a", "number", TRUE, <<>>)
    /\ call.arg.properties
           = [k \in {"a", "b"} |-> IF k = "a" THEN Value("string", "1")
                                   ELSE Value("string", "abc")]

\* ---------------------------------------------------------------- C22
SearchStep == last'.op = "SearchProducts"

\* The filter key is an attribute key of the category the request names
\* and has the safe-identifier shape.
KeptKey(opts, key) ==
    /\ opts.categoryID \in DOMAIN SearchCategories
    /\ \E i \in DOMAIN SearchCategories[opts.categoryID].attributeDefinitions :
           SearchCategories[opts.categoryID].attributeDefinitions[i].key
               = KeyString(key)
    /\ Len(key) >= 1
    /\ Head(key) \in Letters
    /\ \A i \in 2 .. Len(key) : key[i] \in Letters \cup Digits \cup {"_"}

\* The request without the filter keys that are to be dropped.
WithoutDroppedKeys(opts) ==
    [opts EXCEPT !.properties = {f \in opts.properties : KeptKey(opts, f.key)}]

\* C22: SearchProducts returns, with the same error, the products it
\* returns for the request without the property filter keys that are not
\* attribute keys of the named category or not of the safe-identifier
\* shape (every property key when no category is named); such keys cause
\* no error of their own.  Two requests that differ only in such keys
\* therefore return the same products.
C22_DroppedKeysDoNotFilter ==
    [][SearchStep
       => LET opts == call'.arg
              ref == SearchProductsCall(products, WithoutDroppedKeys(opts),
                                        call'.fault)
              bare == SearchProductsCall(products,
                                         [opts EXCEPT !.properties = {}],
                                         call'.fault)
          IN /\ last'.err = ref.err /\ last'.ret = ref.ret
             /\ last'.err = bare.err
             /\ opts.categoryID = "" => last'.ret = bare.ret]_vars

\* A search in category c1 with a filter on a, which is applied, and one on
\* 1a, an attribute key of c1 that is not of the safe shape: the product
\* whose property 1a has another value is returned.
C22_Witness ==
    /\ last.op = "SearchProducts" /\ last.err = "nil"
    /\ call.arg.categoryID = "c1"
    /\ call.arg.properties = {[key |-> <<"a">>, val |-> "x"],
                              [key |-> <<"1", "a">>, val |-> "x"]}
    /\ ~call.arg.minPrice.set /\ ~call.arg.maxPrice.set
    /\ call.arg.limit = 0 /\ call.arg.offset = -1
    /\ last.ret = <<"p3", "p1">>

\* ---------------------------------------------------------------- C21
TxStep == last'.op = "WithTx"

\* The work's writes, taken one by one on the store of the pre-state: the
\* products it inserts and the number of audit entries it appends, up to
\* its first failing write (a product whose id or sku is taken).
RECURSIVE FailingStep(_, _, _)
FailingStep(tbl, steps, i) ==
    IF i > Len(steps) THEN 0
    ELSE IF steps[i].kind = "AuditRepo.Create" THEN FailingStep(tbl, steps, i + 1)
    ELSE IF \/ steps[i].p.id \in DOMAIN tbl
            \/ \E id \in DOMAIN tbl : tbl[id].sku = steps[i].p.sku
    THEN i
    ELSE FailingStep(tbl @@ (steps[i].p.id :> steps[i].p), steps, i + 1)

Inserted(steps) ==
    {steps[i].p : i \in {j \in DOMAIN steps : steps[j].kind = "ProductRepo.Create"}}

Appended(steps) ==
    Cardinality({j \in DOMAIN steps : steps[j].kind = "AuditRepo.Create"})

\* C21: a work function that returns an error, or whose write fails, leaves
\* the store exactly as it was and the caller gets that error; a work
\* function that panics leaves the store as it was and the caller gets the
\* panic, not a nil and not an ordinary error; a work function that returns
\* nil has all its writes committed together: every product it inserted is
\* in the table and the log has grown by every entry it appended.
C21_AtomicScope ==
    [][TxStep =>
        LET req == call'.arg
            failing == FailingStep(products, req.steps, 1)
        IN /\ (failing # 0) =>
                  StoreUnchanged /\ last'.err = "create product"
           /\ (failing = 0 /\ req.ending = "work failed") =>
                  StoreUnchanged /\ last'.err = "work failed"
           /\ (failing = 0 /\ req.ending = "panic") =>
                  StoreUnchanged /\ last'.err = "panic"
           /\ (failing = 0 /\ req.ending = "nil") =>
                  /\ last'.err = "nil"
                  /\ DOMAIN products' =
                         DOMAIN products \cup {p.id : p \in Inserted(req.steps)}
                  /\ \A p \in Inserted(req.steps) : products'[p.id] = p
                  /\ \A id \in DOMAIN products : products'[id] = products[id]
                  /\ Len(auditLogs') = Len(auditLogs) + Appended(req.steps)
                  /\ AppendOnly
                  /\ UNCHANGED <<sales, saleItems>>]_vars

\* A work function that inserted product p2 (not in the store), appended an
\* entry and then panicked: the store holds neither.
C21_Witness ==
    /\ last.op = "WithTx" /\ last.err = "panic"
    /\ Len(call.arg.steps) = 2
    /\ call.arg.steps[1].kind = "ProductRepo.Create"
    /\ call.arg.steps[1].p.id = "p2"
    /\ call.arg.steps[2].kind = "AuditRepo.Create"
    /\ "p2" \notin DOMAIN products
    /\ Len(auditLogs) = 1

\* ---------------------------------------------------------------- C29
LogStep == last'.op = "LogAction"

NewestEntry(logs) == logs[Len(logs)]

\* C29: on an instance whose override is set to h, LogAction stores an
\* entry whose prevHash is h whatever the log holds and even when a read of
\* the last entry would fail (no read is made); it leaves the override at
\* h, so an append that directly follows a successful append on the
\* instance stores the same prevHash again; and LastHash() is the hash of
\* payload, timestamp and h, also when the insert failed and nothing was
\* stored.
C29_OverrideSticky ==
    [][(LogStep /\ svc.prevHash.set) =>
        LET h == svc.prevHash.hash
            hash == SvcCalculateHash(call'.arg.payload, call'.arg.now, h)
        IN /\ svc'.prevHash = Override(h)
           /\ LastHash(svc') = hash
           /\ (call'.fault.kind # "AuditCreate") =>
                  /\ last'.err = "nil"
                  /\ Len(auditLogs') = Len(auditLogs) + 1 /\ AppendOnly
                  /\ NewestEntry(auditLogs').prevHash = NullString(h)
                  /\ NewestEntry(auditLogs').currentHash = hash
                  /\ (last.op = "LogAction" /\ last.err = "nil") =>
                         NewestEntry(auditLogs').prevHash =
                             NewestEntry(auditLogs).prevHash
           /\ (call'.fault.kind = "AuditCreate") =>
                  /\ last'.err # "nil"
                  /\ auditLogs' = auditLogs]_vars

\* Two appends in a row on an instance whose override is a real hash: both
\* entries carry it, and the chain they leave does not verify; and the
\* instance's LastHash is that of a third append whose insert failed.
C29_Witness ==
    /\ last.op = "LogAction" /\ last.err # "nil"
    /\ call.fault.kind = "AuditCreate"
    /\ svc.prevHash.set /\ svc.prevHash.hash # ""
    /\ Len(auditLogs) = 3
    /\ auditLogs[2].prevHash = NullString(svc.prevHash.hash)
    /\ auditLogs[3].prevHash = auditLogs[2].prevHash
    /\ ~VerifyChain(auditLogs)
    /\ LastHash(svc) # auditLogs[3].currentHash
    /\ LastHash(svc) =
           SvcCalculateHash(call.arg.payload, call.arg.now, svc.prevHash.hash)

\* ---------------------------------------------------------------- C24
AllCompleted ==
    DOMAIN procs = Goroutines /\ \A g \in Goroutines : procs[g].pc = "done"

\* C24: once all concurrently invoked product calls have completed, no two
\* audit entries carry the same prevHash and the chain verifies.
C24_ConcurrentAppendsChained ==
    AllCompleted =>
        /\ \A i, j \in DOMAIN auditLogs :
               i # j => auditLogs[i].prevHash # auditLogs[j].prevHash
        /\ VerifyChain(auditLogs)

====
